---------------------------- MODULE Spec2Model ----------------------------
(***************************************************************************)
(* Model of obsidian-palace's agent core:                                  *)
(*   - LLMClient.stream   (src/src/shared/llmClient.ts): the streaming     *)
(*     response decoder: framing, delta accumulation, tool-call            *)
(*     fragment reassembly;                                                *)
(*   - AgentRunner.run and ToolRegistry (src/unnamed/part_002): the        *)
(*     tool-calling loop.                                                  *)
(*                                                                         *)
(* Strings are sequences of symbols (one symbol = one character, or one    *)
(* byte on the wire).  SpecStream explores the decoder over every          *)
(* chunking of a bounded family of byte streams; Spec explores the agent   *)
(* loop over every bounded sequence of model replies, tool outcomes and    *)
(* cancellation moments.                                                   *)
(***************************************************************************)
EXTENDS Integers, Sequences, FiniteSets, TLC

VARIABLES
    sent,       \* the frames the server sends and whether the last line is terminated
    stream,     \* the whole byte stream of the response body (fixed per behaviour)
    wire,       \* the bytes reader.read() has not delivered yet
    dec,        \* LLMClient.stream's locals: decoder, buffer, fullContent, ...
    spc,        \* LLMClient.stream's position: "fetching" | "reading" | "done" | "failed"
    failure,    \* the message of the Error stream() threw after the fetch (<<>>: none)
    torn,       \* some chunk boundary so far fell inside a character or a JSON payload
    registry,   \* ToolRegistry.tools, a Map: its entries in insertion order
    run,        \* AgentRunner.run's locals and outcome, per invocation
    signal,     \* the AbortSignal given to each invocation: aborted or not
    log,        \* the register, unregister and clear calls made on the registry, in order
    observed,   \* what the latest get, execute or toDefinitions call gave its caller
    disk,       \* the plugin's data file (data.json), as loadData reads it
    mem,        \* the plugin's fields settings, chatSessions and palaceData
    ops,        \* the save calls in progress, each at its await
    saved,      \* what the latest completed saveChatSessions and savePalaceData wrote
    split,      \* the call of Translator.splitIntoChunks: its input and its result
    view        \* one ChatView: isLoading, abortController and its sendCurrentMessage calls

vars == <<sent, stream, wire, dec, spc, failure, torn, registry, run, signal, log,
          observed, disk, mem, ops, saved,
          split,
          view>>

streamVars == <<sent, stream, wire, dec, spc, failure, torn>>
agentVars == <<registry, run, signal>>
registryVars == <<log, observed>>
storeVars == <<disk, mem, ops, saved>>
viewVars == <<view>>
chunkVars == <<split>>

(***************************************************************************)
(* Bounds of the model.                                                    *)
(***************************************************************************)
\* Largest number of lines (frames) in a modelled byte stream.
MaxFrames == 3

(***************************************************************************)
(* Sequence helpers.                                                       *)
(***************************************************************************)
Last(s) == s[Len(s)]

Front(s) == SubSeq(s, 1, Len(s) - 1)

RECURSIVE Flatten(_)
Flatten(ss) == IF ss = <<>> THEN <<>> ELSE Head(ss) \o Flatten(Tail(ss))

\* All sequences over S of length 0..n.
RECURSIVE SeqsUpTo(_, _)
SeqsUpTo(S, n) ==
    IF n = 0 THEN {<<>>}
    ELSE LET shorter == SeqsUpTo(S, n - 1)
         IN  shorter \cup {Append(s, x) : s \in {t \in shorter : Len(t) = n - 1}, x \in S}

(***************************************************************************)
(* The wire format.  A byte is a symbol; the two bytes "e1","e2" are the   *)
(* UTF-8 encoding of the one character "E" (a non-ASCII letter), every     *)
(* other byte is an ASCII character and decodes to itself.  "NL" is the    *)
(* newline, "SP" a space and "CR" a carriage return (whitespace to         *)
(* String.trim), "DATA" the marker data: and "DONE" the sentinel [DONE].   *)
(***************************************************************************)
Whitespace == {"SP", "CR"}

\* TextEncoder: the bytes of a text.
RECURSIVE Utf8Encode(_)
Utf8Encode(text) ==
    IF text = <<>> THEN <<>>
    ELSE (IF Head(text) = "E" THEN <<"e1", "e2">> ELSE <<Head(text)>>)
         \o Utf8Encode(Tail(text))

\* The decoding of TextDecoder over the held bytes followed by the new
\* ones: a lead byte and its continuation byte give one character, a lead
\* byte at the very end is held for the next call (pend), and a byte of an
\* ill-formed sequence decodes to the replacement character "REPL".
Utf8Decode(pend, bytes) ==
    LET bs == pend \o bytes
        n == Len(bs)
        CharAt(i) ==
            IF bs[i] = "e1"
            THEN IF i = n \/ bs[i + 1] = "e2" THEN "" ELSE "REPL"
            ELSE IF bs[i] = "e2"
            THEN IF i > 1 /\ bs[i - 1] = "e1" THEN "E" ELSE "REPL"
            ELSE bs[i]
        Emitted(c) == c # ""
    IN  [text |-> SelectSeq([i \in 1..n |-> CharAt(i)], Emitted),
         pend |-> IF n > 0 /\ bs[n] = "e1" THEN <<"e1">> ELSE <<>>]

\* decoder.decode(value) without {stream: true}: an incomplete character at
\* the end of the chunk is flushed as a replacement character.
TextDecodeFlushing(pend, value) ==
    LET r == Utf8Decode(pend, value)
    IN  [text |-> r.text \o (IF r.pend # <<>> THEN <<"REPL">> ELSE <<>>),
         pend |-> <<>>]

\* decoder.decode(value, { stream: true }): an incomplete character at the
\* end of the chunk is kept for the next call.
TextDecode(pend, value) == Utf8Decode(pend, value)

\* String.split('\n'): always at least one element.
RECURSIVE SplitNL(_)
SplitNL(text) ==
    IF \A i \in 1..Len(text) : text[i] # "NL" THEN <<text>>
    ELSE LET i == CHOOSE j \in 1..Len(text) :
                      text[j] = "NL" /\ \A k \in 1..(j - 1) : text[k] # "NL"
         IN  <<SubSeq(text, 1, i - 1)>> \o SplitNL(SubSeq(text, i + 1, Len(text)))

\* String.trim.
RECURSIVE TrimLeft(_)
TrimLeft(s) ==
    IF s # <<>> /\ Head(s) \in Whitespace THEN TrimLeft(Tail(s)) ELSE s

RECURSIVE TrimRight(_)
TrimRight(s) ==
    IF s # <<>> /\ Last(s) \in Whitespace THEN TrimRight(Front(s)) ELSE s

Trim(s) == TrimRight(TrimLeft(s))

(***************************************************************************)
(* JSON payloads.  A parsed event has choices (zero or one choice); a      *)
(* choice has finish_reason ("" when absent) and optionally a delta with   *)
(* content (<<>> when absent) and tool_calls (<<>> when absent); a         *)
(* tool-call entry has index, id and name ("" when absent) and an          *)
(* argument piece (<<>> when absent).                                      *)
(***************************************************************************)
NoDelta == [present |-> FALSE, content |-> <<>>, tool_calls |-> <<>>]

Delta(content, tcs) == [present |-> TRUE, content |-> content, tool_calls |-> tcs]

Choice(fr, delta) == [finish_reason |-> fr, delta |-> delta]

Event(choices) == [choices |-> choices]

TC(index, id, name, args) ==
    [index |-> index, id |-> id, name |-> name, arguments |-> args]

\* The JSON texts of the model and the value each parses to.  Every text
\* is an object "{" ... "}", so no proper prefix of one is itself valid;
\* the symbol between the braces stands for the object's members.
Payloads ==
    { [text |-> <<"{", "E", "}">>,
       json |-> Event(<<Choice("", Delta(<<"E">>, <<>>))>>)],
      [text |-> <<"{", "stop", "}">>,
       json |-> Event(<<Choice("stop", NoDelta)>>)],
      [text |-> <<"{", "length+b", "}">>,
       json |-> Event(<<Choice("length", Delta(<<"b">>, <<>>))>>)],
      [text |-> <<"{", "0:i0,n0,x", "}">>,
       json |-> Event(<<Choice("", Delta(<<>>, <<TC(0, "i0", "n0", <<"x">>)>>))>>)],
      [text |-> <<"{", "0:j0,,y", "}">>,
       json |-> Event(<<Choice("", Delta(<<>>, <<TC(0, "j0", "", <<"y">>)>>))>>)],
      [text |-> <<"{", "0:,m0,", "}">>,
       json |-> Event(<<Choice("", Delta(<<>>, <<TC(0, "", "m0", <<>>)>>))>>)],
      [text |-> <<"{", "1:i1,n1,z", "}">>,
       json |-> Event(<<Choice("", Delta(<<>>, <<TC(1, "i1", "n1", <<"z">>)>>))>>)],
      [text |-> <<"{", "2:i2,n2,z", "}">>,
       json |-> Event(<<Choice("", Delta(<<>>, <<TC(2, "i2", "n2", <<"z">>)>>))>>)],
      [text |-> <<"{", "}">>,
       json |-> Event(<<>>)] }

\* JSON.parse: the value of a valid text; any other text throws.
JSONParse(text) ==
    IF \E p \in Payloads : p.text = text
    THEN [ok |-> TRUE, json |-> (CHOOSE p \in Payloads : p.text = text).json]
    ELSE [ok |-> FALSE, json |-> Event(<<>>)]


(***************************************************************************)
(* LLMClient.stream: the state of one call.                                *)
(*   pend          the TextDecoder's held bytes                            *)
(*   buffer        the partial last line                                   *)
(*   fullContent   the accumulated text                                    *)
(*   acc           toolCallAccumulator, a Map: its entries in insertion    *)
(*                 order, which is the order a Map iterates in             *)
(*   finishReason  the recorded completion reason ("" when none)           *)
(*   deltas        the onDelta calls made so far, in call order            *)
(*   threw         an exception left the read loop                         *)
(***************************************************************************)
DecoderInit ==
    [pend |-> <<>>, buffer |-> <<>>, fullContent |-> <<>>, acc |-> <<>>,
     finishReason |-> "", deltas |-> <<>>, threw |-> FALSE]

\* toolCallAccumulator.has(idx)
AccHas(acc, idx) == \E i \in 1..Len(acc) : acc[i].index = idx

\* acc.arguments = tc.function.arguments (overwriting the buffer).
OverwriteArguments(old, piece) == piece

\* acc.arguments += tc.function.arguments
AppendArguments(old, piece) == old \o piece

\* The entry's id and name assigned whether or not it supplies them:
\* acc.id = tc.id || ''; acc.name = tc.function?.name || ''.
AccumulateToolCallClearing(acc, tc) ==
    LET acc1 == IF AccHas(acc, tc.index) THEN acc
                ELSE Append(acc, [index |-> tc.index, id |-> tc.id,
                                  name |-> tc.name, arguments |-> <<>>])
    IN  [i \in 1..Len(acc1) |->
            IF acc1[i].index # tc.index THEN acc1[i]
            ELSE [index |-> tc.index,
                  id |-> tc.id,
                  name |-> tc.name,
                  arguments |-> IF tc.arguments # <<>>
                                THEN AppendArguments(acc1[i].arguments, tc.arguments)
                                ELSE acc1[i].arguments]]

\* One entry of delta.tool_calls folded into the accumulator.
AccumulateToolCall(acc, tc) ==
    LET acc1 == IF AccHas(acc, tc.index) THEN acc
                ELSE Append(acc, [index |-> tc.index, id |-> tc.id,
                                  name |-> tc.name, arguments |-> <<>>])
    IN  [i \in 1..Len(acc1) |->
            IF acc1[i].index # tc.index THEN acc1[i]
            ELSE [index |-> tc.index,
                  id |-> IF tc.id # "" THEN tc.id ELSE acc1[i].id,
                  name |-> IF tc.name # "" THEN tc.name ELSE acc1[i].name,
                  arguments |-> IF tc.arguments # <<>>
                                THEN AppendArguments(acc1[i].arguments, tc.arguments)
                                ELSE acc1[i].arguments]]

\* for (const tc of delta.tool_calls) { ... }
RECURSIVE AccumulateToolCalls(_, _)
AccumulateToolCalls(acc, tcs) ==
    IF tcs = <<>> THEN acc
    ELSE AccumulateToolCalls(AccumulateToolCall(acc, Head(tcs)), Tail(tcs))

\* The first reason supplied is kept.
RecordFinishReasonOnce(d, reason) ==
    IF reason # "" /\ d.finishReason = "" THEN [d EXCEPT !.finishReason = reason] ELSE d

\* if (choice.finish_reason) { finishReason = choice.finish_reason; }
RecordFinishReason(d, reason) ==
    IF reason # "" THEN [d EXCEPT !.finishReason = reason] ELSE d

\* The body of the try block for a parsed event.
HandleEvent(d, json) ==
    IF json.choices = <<>> THEN d
    ELSE LET choice == json.choices[1]
             d1 == RecordFinishReason(d, choice.finish_reason)
             delta == choice.delta
             d2 == IF delta.content # <<>>
                   THEN [d1 EXCEPT !.fullContent = @ \o delta.content,
                                   !.deltas = Append(@, [content |-> delta.content,
                                                         tool_calls |-> <<>>])]
                   ELSE d1
             d3 == IF delta.tool_calls # <<>>
                   THEN [d2 EXCEPT !.acc = AccumulateToolCalls(@, delta.tool_calls),
                                   !.deltas = Append(@, [content |-> <<>>,
                                                         tool_calls |-> delta.tool_calls])]
                   ELSE d2
         IN  IF ~delta.present THEN d1 ELSE d3

\* No try/catch around the parse: the SyntaxError leaves stream().
RethrowParseError(d) == [d EXCEPT !.threw = TRUE]

\* catch { /* ignore parse errors for partial chunks */ }
CatchParseError(d) == d

\* The body of "for (const line of lines)".
ProcessLine(d, line) ==
    LET trimmed == Trim(line)
    IN  IF trimmed = <<>> \/ Head(trimmed) # "DATA" THEN d
        ELSE LET data == Trim(Tail(trimmed))
             IN  IF data = <<"DONE">> THEN d
                 ELSE LET parsed == JSONParse(data)
                      IN  IF parsed.ok THEN HandleEvent(d, parsed.json)
                          ELSE CatchParseError(d)

\* The lines of a chunk handled from the last to the first.
RECURSIVE ProcessLinesBackwards(_, _)
ProcessLinesBackwards(d, lines) ==
    IF lines = <<>> \/ d.threw THEN d
    ELSE ProcessLinesBackwards(ProcessLine(d, Last(lines)), Front(lines))

\* for (const line of lines) { ... }
RECURSIVE ProcessLines(_, _)
ProcessLines(d, lines) ==
    IF lines = <<>> \/ d.threw THEN d
    ELSE ProcessLines(ProcessLine(d, Head(lines)), Tail(lines))

\* buffer = '' (the partial last line is thrown away).
RebufferNothing(lines) == <<>>

\* buffer = lines.pop() || ''
Rebuffer(lines) == Last(lines)

\* The body of the read loop for one chunk the reader delivered.
Feed(d, value) ==
    LET t == TextDecode(d.pend, value)
        lines == SplitNL(d.buffer \o t.text)
    IN  ProcessLines([d EXCEPT !.pend = t.pend, !.buffer = Rebuffer(lines)],
                     Front(lines))

\* "Build final tool_calls" and the returned LLMResponse.  content is null
\* when fullContent is empty; tool_calls is undefined when nothing was
\* accumulated.
StreamResult(d) ==
    [content |-> [null |-> d.fullContent = <<>>, v |-> d.fullContent],
     tool_calls |-> [undef |-> d.acc = <<>>,
                     v |-> [i \in 1..Len(d.acc) |->
                               [id |-> d.acc[i].id, name |-> d.acc[i].name,
                                arguments |-> d.acc[i].arguments]]],
     finish_reason |-> IF d.finishReason = "" THEN "stop" ELSE d.finishReason]

(***************************************************************************)
(* The byte streams explored.  A frame is one line of the event stream     *)
(* (without its newline) together with the event it carries, if any.       *)
(***************************************************************************)
NoEvent == Event(<<>>)

Frame(line, json) == [line |-> line, json |-> json]

PayloadOf(body) == (CHOOSE p \in Payloads : p.text = <<"{", body, "}">>)

\* data: <json>, with the whitespace variants the wire allows.
DataFrame(pre, body, post) ==
    Frame(pre \o <<"{", body, "}">> \o post, PayloadOf(body).json)

\* Each frame's event is carried by its last line; a frame may begin with
\* a line that carries nothing (a blank line, a line that is not data).
Frames ==
    { DataFrame(<<"DATA", "SP">>, "E", <<>>),
      DataFrame(<<"CR", "NL", "DATA", "SP">>, "stop", <<"CR">>),
      DataFrame(<<"EVT", "NL", "DATA">>, "length+b", <<>>),
      DataFrame(<<"DATA", "SP">>, "0:i0,n0,x", <<>>),
      DataFrame(<<"DATA">>, "0:j0,,y", <<>>),
      DataFrame(<<"DATA", "SP">>, "0:,m0,", <<>>),
      DataFrame(<<"SP", "DATA", "SP">>, "1:i1,n1,z", <<"SP">>),
      Frame(<<"DATA", "SP", "DONE">>, NoEvent),            \* the terminal sentinel
      Frame(<<"DATA", "SP", "{", "E">>, NoEvent) }         \* a payload that is not JSON

\* The text of a stream: each frame's line and a newline; the last line's
\* newline is there only when the stream is terminated.
StreamText(frames, terminated) ==
    LET text == Flatten([i \in 1..Len(frames) |-> frames[i].line \o <<"NL">>])
    IN  IF terminated \/ frames = <<>> THEN text ELSE Front(text)

StreamBytes(frames, terminated) == Utf8Encode(StreamText(frames, terminated))

\* A chunk boundary at this point falls inside a character or inside a
\* JSON payload.
TornHere(d) ==
    \/ d.pend # <<>>
    \/ \E i \in 1..Len(d.buffer) : d.buffer[i] = "{" /\ Last(d.buffer) # "}"

\* The HTTP statuses of the responses explored.
Statuses == {200, 500}

\* response.ok
Ok(status) == status \in 200..299

\* response.text(): the whole body decoded at once.
ResponseText(bytes) ==
    LET r == Utf8Decode(<<>>, bytes)
    IN  r.text \o (IF r.pend # <<>> THEN <<"REPL">> ELSE <<>>)

\* The status is not looked at: the body is read as frames.
OnFetchedUnchecked(status, body) == [spc |-> "reading", failure |-> <<>>]

\* From the settling of fetch to the first reader.read():
\* if (!response.ok) throw new Error(`API request failed (${status}): ${errText}`)
OnFetched(status, body) ==
    IF ~Ok(status)
    THEN [spc |-> "failed",
          failure |-> <<"API request failed (", ToString(status), "): ">>
                      \o ResponseText(body)]
    ELSE [spc |-> "reading", failure |-> <<>>]

StreamInit ==
    /\ sent \in [frames : SeqsUpTo(Frames, MaxFrames), terminated : BOOLEAN,
                  status : Statuses]
    /\ stream = StreamBytes(sent.frames, sent.terminated)
    /\ wire = stream
    /\ dec = DecoderInit
    /\ torn = FALSE
    /\ spc = "fetching"
    /\ failure = <<>>

\* fetch resolves with the response.
Fetched ==
    /\ spc = "fetching"
    /\ LET next == OnFetched(sent.status, stream)
       IN  /\ spc' = next.spc
           /\ failure' = next.failure
           /\ wire' = IF next.spc = "failed" THEN <<>> ELSE wire
    /\ UNCHANGED <<sent, stream, dec, torn>>
    /\ UNCHANGED agentVars
    /\ UNCHANGED storeVars
    /\ UNCHANGED registryVars
    /\ UNCHANGED chunkVars
    /\ UNCHANGED viewVars

\* reader.read() delivers the next chunk: any non-empty prefix of what is left.
ReadChunk ==
    /\ spc = "reading"
    /\ wire # <<>>
    /\ ~dec.threw
    /\ \E k \in 1..Len(wire) :
        /\ dec' = Feed(dec, SubSeq(wire, 1, k))
        /\ wire' = SubSeq(wire, k + 1, Len(wire))
        /\ torn' = (torn \/ (k < Len(wire) /\ TornHere(dec')))
    /\ UNCHANGED <<sent, stream, spc, failure>>
    /\ UNCHANGED agentVars
    /\ UNCHANGED storeVars
    /\ UNCHANGED registryVars
    /\ UNCHANGED chunkVars
    /\ UNCHANGED viewVars

\* The text left in the buffer is processed as a last line.
BreakFlushing(d) == ProcessLines([d EXCEPT !.buffer = <<>>], <<d.buffer>>)

\* if (done) break: the loop is left with the locals as they are; what is
\* in buffer is not looked at again.
Break(d) == d

\* reader.read() reports done: the loop breaks and the result is built.
ReadDone ==
    /\ spc = "reading"
    /\ wire = <<>>
    /\ ~dec.threw
    /\ spc' = "done"
    /\ dec' = Break(dec)
    /\ UNCHANGED <<sent, stream, wire, torn, failure>>
    /\ UNCHANGED agentVars
    /\ UNCHANGED storeVars
    /\ UNCHANGED registryVars
    /\ UNCHANGED chunkVars
    /\ UNCHANGED viewVars

StreamNext == Fetched \/ ReadChunk \/ ReadDone

\* No agent run takes part in the exploration of the decoder.
(***************************************************************************)
(* The plugin's data file (src/src/main.ts).  One JSON object holds the    *)
(* settings fields and, under the keys 'chat-sessions' and 'palace-data',  *)
(* the chat sessions and the palace data.  A value is the number of edits  *)
(* made to it since the file was first read; a key may be absent.          *)
(***************************************************************************)
Slot(has, v) == [has |-> has, v |-> v]

Absent == Slot(FALSE, 0)

\* loadData() || {} when there is no data file.
EmptyData == [settings |-> Absent, chat |-> Absent, palace |-> Absent]

\* The data files a plugin load may find.
StoredData ==
    { EmptyData,
      [settings |-> Slot(TRUE, 0), chat |-> Slot(TRUE, 0), palace |-> Slot(TRUE, 0)] }

\* onload: loadSettings, loadPalaceData, loadChatSessions.  Object.assign
\* copies every key of the stored object into this.settings, the keys
\* 'chat-sessions' and 'palace-data' with it.
OnLoad(d) ==
    [settings |-> [settings |-> Slot(TRUE, IF d.settings.has THEN d.settings.v ELSE 0),
                   chat |-> d.chat,
                   palace |-> d.palace],
     chatSessions |-> IF d.chat.has THEN d.chat.v ELSE 0,
     palaceData |-> IF d.palace.has THEN d.palace.v ELSE 0]

NothingSaved == [chat |-> Absent, palace |-> Absent]

StoreIdle ==
    disk = EmptyData /\ mem = OnLoad(EmptyData) /\ ops = <<>> /\ saved = NothingSaved

(***************************************************************************)
(* Translator.splitIntoChunks (src/unnamed/part_004).  A document is a     *)
(* sequence of the symbols "a" (a character that is not whitespace), "SP"  *)
(* and "NL".                                                               *)
(***************************************************************************)
\* String.trim on a document: spaces and newlines are whitespace.
RECURSIVE TrimStart(_)
TrimStart(s) ==
    IF s # <<>> /\ Head(s) \in {"SP", "NL"} THEN TrimStart(Tail(s)) ELSE s

RECURSIVE TrimEnd(_)
TrimEnd(s) ==
    IF s # <<>> /\ Last(s) \in {"SP", "NL"} THEN TrimEnd(Front(s)) ELSE s

StringTrim(s) == TrimEnd(TrimStart(s))

\* The text after the newlines a text begins with.
RECURSIVE SkipNewlines(_)
SkipNewlines(s) ==
    IF s # <<>> /\ Head(s) = "NL" THEN SkipNewlines(Tail(s)) ELSE s

\* content.split(/\n\n+/): the pieces between runs of two or more
\* newlines.
RECURSIVE SplitParagraphs(_)
SplitParagraphs(s) ==
    LET Breaks == {i \in 1..(Len(s) - 1) : s[i] = "NL" /\ s[i + 1] = "NL"}
    IN  IF Breaks = {} THEN <<s>>
        ELSE LET i == CHOOSE j \in Breaks : \A k \in Breaks : j <= k
             IN  <<SubSeq(s, 1, i - 1)>>
                 \o SplitParagraphs(SkipNewlines(SubSeq(s, i, Len(s))))

\* The locals of splitIntoChunks.
ChunkState(chunks, currentChunk) == [chunks |-> chunks, currentChunk |-> currentChunk]

\* if (currentChunk.trim()) { chunks.push(currentChunk.trim()); ... }
PushCurrent(st) ==
    IF StringTrim(st.currentChunk) # <<>>
    THEN ChunkState(Append(st.chunks, StringTrim(st.currentChunk)), <<>>)
    ELSE st

\* The body of "for (const line of lines)".
ChunkLine(st, line, maxChunkSize) ==
    IF Len(st.currentChunk \o <<"NL">> \o line) > maxChunkSize
       /\ StringTrim(st.currentChunk) # <<>>
    THEN ChunkState(Append(st.chunks, StringTrim(st.currentChunk)), line)
    ELSE ChunkState(st.chunks,
                    IF st.currentChunk # <<>> THEN st.currentChunk \o <<"NL">> \o line
                    ELSE line)

RECURSIVE ChunkLines(_, _, _)
ChunkLines(st, lines, maxChunkSize) ==
    IF lines = <<>> THEN st
    ELSE ChunkLines(ChunkLine(st, Head(lines), maxChunkSize), Tail(lines), maxChunkSize)

\* The body of "for (const paragraph of paragraphs)".
ChunkParagraph(st, paragraph, maxChunkSize) ==
    IF Len(paragraph) > maxChunkSize
    THEN ChunkLines(PushCurrent(st), SplitNL(paragraph), maxChunkSize)
    ELSE LET newChunk == IF st.currentChunk # <<>>
                         THEN st.currentChunk \o <<"NL", "NL">> \o paragraph
                         ELSE paragraph
         IN  IF Len(newChunk) > maxChunkSize /\ StringTrim(st.currentChunk) # <<>>
             THEN ChunkState(Append(st.chunks, StringTrim(st.currentChunk)), paragraph)
             ELSE ChunkState(st.chunks, newChunk)

RECURSIVE ChunkParagraphs(_, _, _)
ChunkParagraphs(st, paragraphs, maxChunkSize) ==
    IF paragraphs = <<>> THEN st
    ELSE ChunkParagraphs(ChunkParagraph(st, Head(paragraphs), maxChunkSize),
                         Tail(paragraphs), maxChunkSize)

splitIntoChunks(content, maxChunkSize) ==
    IF Len(content) <= maxChunkSize THEN <<content>>
    ELSE PushCurrent(ChunkParagraphs(ChunkState(<<>>, <<>>), SplitParagraphs(content),
                                     maxChunkSize)).chunks

\* The call of splitIntoChunks under way, or none: its argument, the
\* configured size, and the chunks once it has returned.
Split(content, maxChunkSize, returned, chunks) ==
    [content |-> content, maxChunkSize |-> maxChunkSize, returned |-> returned,
     chunks |-> chunks]

ChunkIdle == split = Split(<<>>, 1, FALSE, <<>>)

(***************************************************************************)
(* One ChatView (src/src/chatView.ts): its fields isLoading and            *)
(* abortController and its calls of sendCurrentMessage, each at one of its *)
(* awaits.  A controller is named by the call that created it; 0 is null.  *)
(***************************************************************************)
SendCall(pc, aborted) == [pc |-> pc, aborted |-> aborted]

View(isLoading, abortController, sends) ==
    [isLoading |-> isLoading, abortController |-> abortController, sends |-> sends]

\* private isLoading = false; private abortController = null
ViewIdle == view = View(FALSE, 0, <<>>)

AgentIdle == registry = <<>> /\ run = <<>> /\ signal = <<>>

\* No call on a registry is explored.
RegistryIdle == log = <<>> /\ observed = <<>>

InitStream == StreamInit /\ AgentIdle /\ RegistryIdle /\ StoreIdle /\ ChunkIdle /\ ViewIdle

SpecStream == InitStream /\ [][StreamNext]_vars

(***************************************************************************)
(* Claims about LLMClient.stream, checked under SpecStream.                *)
(***************************************************************************)
\* The frames whose event line is complete: the last frame's line is not
\* when the stream does not end with a newline.
DeliveredFrames ==
    IF sent.terminated \/ sent.frames = <<>> THEN sent.frames ELSE Front(sent.frames)

\* The argument pieces an event carries for index idx, in entry order.
EventPieces(json, idx) ==
    IF json.choices = <<>> THEN <<>>
    ELSE LET tcs == json.choices[1].delta.tool_calls
         IN  Flatten([i \in 1..Len(tcs) |->
                        IF tcs[i].index = idx THEN tcs[i].arguments ELSE <<>>])

\* The argument pieces delivered for index idx, in delivery order.
DeliveredPieces(idx) ==
    Flatten([i \in 1..Len(DeliveredFrames) |-> EventPieces(DeliveredFrames[i].json, idx)])

\* C1: for every stream and every way of cutting its bytes into chunks
\* (also inside a line, a character or a JSON payload), the result of
\* LLMClient.stream (content, tool_calls, finish_reason) is the result
\* obtained when the whole stream arrives as one chunk.
C1_ChunkingInvariant ==
    spc = "done" => StreamResult(dec) = StreamResult(Feed(DecoderInit, stream))

\* C1's case: a stream of valid frames carrying text and a tool call has
\* been read to its end with a cut inside a JSON payload.
C1_Witness ==
    /\ spc = "done"
    /\ torn
    /\ \A i \in 1..Len(sent.frames) : sent.frames[i].json # NoEvent
    /\ ~StreamResult(dec).content.null
    /\ ~StreamResult(dec).tool_calls.undef

\* C2: the arguments of every returned tool call are exactly the
\* concatenation, in delivery order, of the argument pieces delivered for
\* its index (nothing dropped, duplicated or reordered), also when deltas
\* for other indices come in between; every index that was delivered a
\* piece has a tool call.
C2_ArgumentsConcatenated ==
    spc = "done" =>
        /\ \A i \in 1..Len(dec.acc) :
              StreamResult(dec).tool_calls.v[i].arguments
                  = DeliveredPieces(dec.acc[i].index)
        /\ \A idx \in 0..1 : DeliveredPieces(idx) # <<>> => AccHas(dec.acc, idx)

\* C2's case: index 0 got the pieces x and y in two deltas, with a delta
\* for index 1 between them.
C2_Witness ==
    /\ spc = "done"
    /\ Len(DeliveredFrames) = 3
    /\ EventPieces(DeliveredFrames[1].json, 0) = <<"x">>
    /\ EventPieces(DeliveredFrames[2].json, 1) = <<"z">>
    /\ EventPieces(DeliveredFrames[3].json, 0) = <<"y">>
    /\ Len(dec.acc) = 2
    /\ StreamResult(dec).tool_calls.v[1].arguments = <<"x", "y">>

\* The frames whose payload is JSON or that carry no payload at all.
Parsable(frames) ==
    LET Good(f) == f.line # <<"DATA", "SP", "{", "E">>
    IN  SelectSeq(frames, Good)

\* C16: stream never fails on a payload that is not JSON, and such a frame
\* has no effect: text, tool-call fragments, finish reason and the deltas
\* emitted are those of the same stream without the frame, the frames
\* after it included.
C16_MalformedFrameSkipped ==
    /\ ~dec.threw
    /\ spc = "done" =>
          LET clean == Feed(DecoderInit, StreamBytes(Parsable(DeliveredFrames), TRUE))
          IN  /\ dec.fullContent = clean.fullContent
              /\ dec.acc = clean.acc
              /\ dec.finishReason = clean.finishReason
              /\ dec.deltas = clean.deltas
              /\ StreamResult(dec) = StreamResult(clean)

\* C16's case: a frame that is not JSON stands between a frame with text
\* and a frame with a finish reason, and both were decoded.
C16_Witness ==
    /\ spc = "done"
    /\ sent.terminated
    /\ Len(sent.frames) = 3
    /\ Parsable(sent.frames) = <<sent.frames[1], sent.frames[3]>>
    /\ sent.frames[1].json # NoEvent
    /\ dec.fullContent # <<>>
    /\ dec.finishReason = "stop"

\* C17: with a status that is not a success status, stream fails without
\* reading the body as frames: nothing is decoded, onDelta is never
\* called, and the error's message ends with the body's text as sent.
C17_StatusShortCircuits ==
    ~Ok(sent.status) =>
        /\ spc \in {"fetching", "failed"}
        /\ dec = DecoderInit
        /\ spc = "failed" =>
              failure = <<"API request failed (", ToString(sent.status), "): ">>
                        \o StreamText(sent.frames, sent.terminated)

\* C17's case: a response with status 500 whose body holds frames with
\* text and a non-ASCII character.
C17_Witness ==
    /\ spc = "failed"
    /\ sent.status = 500
    /\ Len(sent.frames) >= 2
    /\ \E i \in 1..Len(sent.frames) :
          sent.frames[i].json = PayloadOf("E").json
    /\ Len(failure) > 3

\* The onDelta calls an event gives rise to: one for its content, then
\* one for its tool calls.
EventDeltas(json) ==
    IF json.choices = <<>> THEN <<>>
    ELSE LET delta == json.choices[1].delta
         IN  (IF delta.content # <<>>
              THEN <<[content |-> delta.content, tool_calls |-> <<>>]>> ELSE <<>>)
             \o (IF delta.tool_calls # <<>>
                 THEN <<[content |-> <<>>, tool_calls |-> delta.tool_calls]>> ELSE <<>>)

\* The onDelta calls of a sequence of frames, in the frames' order.
FrameDeltas(frames) ==
    Flatten([i \in 1..Len(frames) |-> EventDeltas(frames[i].json)])

IsPrefix(s, t) == Len(s) <= Len(t) /\ s = SubSeq(t, 1, Len(s))

\* C18: at every moment of every chunking, the onDelta calls made so far
\* are a prefix of the events' deltas in the order of the byte stream, and
\* at the end they are all the deltas of the complete frames.
C18_DeltasInStreamOrder ==
    /\ IsPrefix(dec.deltas, FrameDeltas(sent.frames))
    /\ spc = "done" => dec.deltas = FrameDeltas(DeliveredFrames)

\* C18's case: three frames with three different deltas arrived in chunks
\* cut inside a payload.
C18_Witness ==
    /\ spc = "done"
    /\ torn
    /\ Len(dec.deltas) = 3
    /\ dec.deltas[1] # dec.deltas[2]
    /\ dec.deltas[2] # dec.deltas[3]
    /\ dec.deltas[1] # dec.deltas[3]

\* The accumulator's entries in ascending order of index.
ByIndex(acc) ==
    [i \in 1..Len(acc) |->
        acc[CHOOSE k \in 1..Len(acc) :
                Cardinality({m \in 1..Len(acc) : acc[m].index < acc[k].index}) = i - 1]]

\* C15: the tool calls of the result are the accumulated fragments in
\* ascending order of index, whatever order the indices first appeared
\* in on the wire.
C15_AscendingIndexOrder ==
    spc = "done" =>
        StreamResult(dec).tool_calls.v
            = [i \in 1..Len(dec.acc) |->
                  [id |-> ByIndex(dec.acc)[i].id, name |-> ByIndex(dec.acc)[i].name,
                   arguments |-> ByIndex(dec.acc)[i].arguments]]

(***************************************************************************)
(* ToolRegistry (src/unnamed/part_002).  A tool has a name, a description, *)
(* a parameter schema and an execute function; the model knows a tool's    *)
(* execute by its behaviour:                                               *)
(*   "lookup"   returns <<"hit">> for the arguments object Q and           *)
(*              <<"none">> for any other object                            *)
(*   "throws"   throws Error("boom"), whatever the arguments               *)
(*   "rejects"  returns a promise that rejects with Error("late")          *)
(***************************************************************************)
Tool(name, description, parameters, behaviour) ==
    [name |-> name, description |-> description, parameters |-> parameters,
     behaviour |-> behaviour]

NoTool == Tool("", "", "", "")

\* tools.get(name): the entry of that name, or undefined.
RegistryGet(reg, name) ==
    IF \E i \in 1..Len(reg) : reg[i].name = name
    THEN [found |-> TRUE, tool |-> reg[CHOOSE i \in 1..Len(reg) : reg[i].name = name]]
    ELSE [found |-> FALSE, tool |-> NoTool]

\* ToolRegistry.toDefinitions: one definition per registered tool.
ToDefinitions(reg) ==
    [i \in 1..Len(reg) |->
        [type |-> "function",
         function |-> [name |-> reg[i].name, description |-> reg[i].description,
                       parameters |-> reg[i].parameters]]]

\* tool.execute(args): what the tool returns, or the message of the Error
\* it throws.
ToolRun(tool, args) ==
    IF tool.behaviour = "throws" THEN [threw |-> TRUE, value |-> <<"boom">>]
    ELSE IF tool.behaviour = "rejects" THEN [threw |-> TRUE, value |-> <<"late">>]
    ELSE [threw |-> FALSE, value |-> IF args = "Q" THEN <<"hit">> ELSE <<"none">>]

\* JSON.stringify({ error: msg })
ErrorPayload(msg) == <<"{\"error\":">> \o msg \o <<"}">>

\* execute throwing on a name that is not registered.
ExecuteOutcomeUnknownThrows(lookup, name, args) ==
    IF ~lookup.found
    THEN [threw |-> TRUE, value |-> <<"Unknown tool: ", name>>]
    ELSE LET r == ToolRun(lookup.tool, args)
         IN  IF r.threw THEN [threw |-> FALSE, value |-> ErrorPayload(r.value)]
             ELSE r

\* execute resolving to the bare message of the tool's fault.
ExecuteOutcomeBareMessage(lookup, name, args) ==
    IF ~lookup.found
    THEN [threw |-> FALSE, value |-> ErrorPayload(<<"Unknown tool: ", name>>)]
    ELSE LET r == ToolRun(lookup.tool, args)
         IN  [threw |-> FALSE, value |-> r.value]

\* execute without its try/catch: the tool's fault leaves execute.
ExecuteOutcomeUncaught(lookup, name, args) ==
    IF ~lookup.found
    THEN [threw |-> FALSE, value |-> ErrorPayload(<<"Unknown tool: ", name>>)]
    ELSE ToolRun(lookup.tool, args)

\* ToolRegistry.execute after the lookup: what the returned promise settles
\* to (threw: it rejects).
ExecuteOutcome(lookup, name, args) ==
    IF ~lookup.found
    THEN [threw |-> FALSE, value |-> ErrorPayload(<<"Unknown tool: ", name>>)]
    ELSE LET r == ToolRun(lookup.tool, args)
         IN  IF r.threw THEN [threw |-> FALSE, value |-> ErrorPayload(r.value)]
             ELSE r

\* The registries a run is given: none of the tools, or the two tools n0
\* and n1 (the name n2 is never registered).
Registries ==
    { <<>>,
      <<Tool("n0", "d0", "p0", "lookup"), Tool("n1", "d1", "p1", "throws")>> }

(***************************************************************************)
(* The model's replies.  Each is what LLMClient.stream returns, and the    *)
(* deltas it reports, for one response body.                               *)
(***************************************************************************)
FrameOf(body) == CHOOSE f \in Frames : f.json = PayloadOf(body).json

Frame2 == Frame(<<"DATA", "SP", "{", "2:i2,n2,z", "}">>, PayloadOf("2:i2,n2,z").json)

MalformedFrame == Frame(<<"DATA", "SP", "{", "E">>, NoEvent)

DoneFrame == Frame(<<"DATA", "SP", "DONE">>, NoEvent)

ReplyStreams ==
    { <<FrameOf("E"), FrameOf("stop"), DoneFrame>>,                  \* text
      <<MalformedFrame, FrameOf("stop"), DoneFrame>>,                \* no text
      <<FrameOf("0:i0,n0,x"), DoneFrame>>,                           \* one call
      <<FrameOf("length+b"), FrameOf("0:i0,n0,x"), FrameOf("0:j0,,y")>>,
                                                                     \* text, one call
      <<FrameOf("1:i1,n1,z"), FrameOf("0:i0,n0,x"), FrameOf("0:j0,,y")>>,
                                                                     \* two calls
      <<FrameOf("0:i0,n0,x"), FrameOf("1:i1,n1,z")>>,
                                                  \* two calls, the first's arguments not JSON
      <<Frame2, FrameOf("E"), FrameOf("1:i1,n1,z"), MalformedFrame,
        FrameOf("0:i0,n0,x")>> }                                     \* text, three calls

\* The decoder's final state for a response body.
Decoded(frames) == Feed(DecoderInit, StreamBytes(frames, TRUE))

\* The final states of the decoder for the model's response bodies.
Replies == {Decoded(frames) : frames \in ReplyStreams}

\* JSON.parse of a tool call's argument string: the object it denotes.
\* The pieces x and y are the two halves of the text of the object Q, z
\* is the text of the object Z; every other string is not JSON.
ArgumentObjects ==
    { [text |-> <<"x", "y">>, value |-> "Q"],
      [text |-> <<"z">>, value |-> "Z"] }

ParseArguments(text) ==
    IF \E a \in ArgumentObjects : a.text = text
    THEN [ok |-> TRUE, value |-> (CHOOSE a \in ArgumentObjects : a.text = text).value]
    ELSE [ok |-> FALSE, value |-> ""]

\* JSON.parse(toolCall.function.arguments) without its try/catch.
ToolArgsUncaught(text) ==
    LET parsed == ParseArguments(text)
    IN  [threw |-> ~parsed.ok, value |-> parsed.value]

\* try { toolArgs = JSON.parse(...) } catch { toolArgs = {} }
ToolArgs(text) ==
    LET parsed == ParseArguments(text)
    IN  [threw |-> FALSE, value |-> IF parsed.ok THEN parsed.value ELSE "{}"]

(***************************************************************************)
(* AgentRunner.run (src/unnamed/part_002).  JavaScript runs the code       *)
(* between two awaits without interruption, so one step of a run is the    *)
(* code from one await to the next.  A run's record:                       *)
(*   pc            "ready"      constructed, run not called yet            *)
(*                 "inflight"   awaiting llmClient.stream                  *)
(*                 "executing"  awaiting toolRegistry.execute              *)
(*                 "returned" | "thrown"   the promise of run settled      *)
(*                 "unused"     not an invocation of this behaviour        *)
(*   maxIterations, messages    the configuration and the caller's list    *)
(*   toolDefs, fullMessages, iteration, fullText, response   the locals    *)
(*   i             the position of the tool-call loop in response's calls  *)
(*   exec          the tool execution awaited                              *)
(*   ret, error    the value returned, the error thrown                    *)
(*   sig           the AbortSignal the caller passes to run: its index in  *)
(*                 the variable signal (0: none)                           *)
(*   attached      the signal given to fetch by each request, in order     *)
(* and, recorded for the properties only:                                  *)
(*   outcome       "done" | "exhausted" for a run that returned            *)
(*   abortedAtCall the signal was set when run was called                  *)
(*   requests      the request bodies sent, in order                       *)
(*   dispatches    the tool executions started, in order                   *)
(*   rounds        per reply with tool calls: the reply and the results    *)
(*                 its calls have produced so far                          *)
(*   callbacks     the callbacks invoked, in order                         *)
(***************************************************************************)
RunIds == {1, 2}

\* Largest iteration ceiling explored.
MaxIter == 3

SystemPrompt == <<"sys">>

Message(role, content, id, tcs) ==
    [role |-> role, content |-> content, tool_call_id |-> id, tool_calls |-> tcs]

\* The message lists a caller passes.
Inputs ==
    { <<Message("user", <<"q">>, "", <<>>)>>,
      <<Message("user", <<"p">>, "", <<>>), Message("assistant", <<"o">>, "", <<>>),
        Message("user", <<"q">>, "", <<>>)>> }

NoError == [name |-> "", origin |-> ""]

\* The cancellation thrown as a plain Error.
AbortErrorPlain == [name |-> "Error", origin |-> "cancel"]

\* new DOMException('Aborted', 'AbortError'), thrown by run or by fetch.
AbortError == [name |-> "AbortError", origin |-> "cancel"]

NoExec == [lookup |-> [found |-> FALSE, tool |-> NoTool], name |-> "", args |-> ""]

Callback(cb, arg) == [cb |-> cb, arg |-> arg]

NewRun(maxIterations, messages, sig) ==
    [pc |-> "ready", maxIterations |-> maxIterations, messages |-> messages,
     sig |-> sig, attached |-> <<>>,
     toolDefs |-> <<>>, fullMessages |-> <<>>, iteration |-> 0, fullText |-> <<>>,
     response |-> StreamResult(DecoderInit), i |-> 0, exec |-> NoExec,
     ret |-> <<>>, error |-> NoError, outcome |-> "", abortedAtCall |-> FALSE,
     requests |-> <<>>, dispatches |-> <<>>, rounds |-> <<>>, callbacks |-> <<>>]

UnusedRun == [NewRun(1, <<>>, 0) EXCEPT !.pc = "unused"]

Throw(s, err) == [s EXCEPT !.pc = "thrown", !.error = err]

\* tools: toolDefs (passed even when empty).
ToolsOptionAlways(toolDefs) == [undef |-> FALSE, v |-> toolDefs]

\* tools: undefined (the definitions are never passed).
ToolsOptionNever(toolDefs) == [undef |-> TRUE, v |-> <<>>]

\* tools: toolDefs.length > 0 ? toolDefs : undefined
ToolsOption(toolDefs) ==
    [undef |-> ~(Len(toolDefs) > 0), v |-> IF Len(toolDefs) > 0 THEN toolDefs ELSE <<>>]

\* serializeMessage: role and content, tool_call_id and tool_calls only
\* when the message has them ("" and <<>> stand for an absent field).
SerializeMessage(msg) ==
    [role |-> msg.role, content |-> msg.content,
     tool_call_id |-> IF msg.tool_call_id # "" THEN msg.tool_call_id ELSE "",
     tool_calls |-> IF msg.tool_calls # <<>> THEN msg.tool_calls ELSE <<>>]

\* The request body LLMClient.stream builds: tools is a field of it only
\* when options.tools is given and not empty.
RequestBody(messages, tools) ==
    [messages |-> [k \in 1..Len(messages) |-> SerializeMessage(messages[k])],
     stream |-> TRUE,
     hasTools |-> (~tools.undef /\ Len(tools.v) > 0),
     tools |-> IF ~tools.undef /\ Len(tools.v) > 0 THEN tools.v ELSE <<>>]

\* stream called with the conversation without the tool results.
CallStreamWithoutResults(s) ==
    [s EXCEPT !.fullText = <<>>,
              !.pc = "inflight",
              !.attached = Append(@, s.sig),
              !.requests = Append(@, RequestBody(SelectSeq(s.fullMessages,
                                                           LAMBDA m : m.role # "tool"),
                                                 ToolsOption(s.toolDefs)))]

\* stream called without the signal among its options: fetch gets none.
CallStreamNoSignal(s) ==
    [s EXCEPT !.fullText = <<>>,
              !.pc = "inflight",
              !.attached = Append(@, 0),
              !.requests = Append(@, RequestBody(s.fullMessages, ToolsOption(s.toolDefs)))]

\* stream called with the schemas of the tools registered at this moment.
CallStreamLiveTools(s) ==
    [s EXCEPT !.fullText = <<>>,
              !.pc = "inflight",
              !.attached = Append(@, s.sig),
              !.requests = Append(@, RequestBody(s.fullMessages,
                                                 ToolsOption(ToDefinitions(registry))))]

\* let fullText = ''; llmClient.stream(fullMessages, onDelta, {...}) up to
\* its fetch: signal is passed on to fetch (options?.signal).
CallStream(s) ==
    [s EXCEPT !.fullText = <<>>,
              !.pc = "inflight",
              !.attached = Append(@, s.sig),
              !.requests = Append(@, RequestBody(s.fullMessages, ToolsOption(s.toolDefs)))]

\* String.join('\n') of a list of strings.
RECURSIVE JoinNL(_)
JoinNL(strs) ==
    IF strs = <<>> THEN <<>>
    ELSE IF Len(strs) = 1 THEN strs[1]
    ELSE strs[1] \o <<"NL">> \o JoinNL(Tail(strs))

\* fullMessages.filter(m => m.role === 'assistant').map(m => m.content)
RECURSIVE AssistantContents(_)
AssistantContents(msgs) ==
    IF msgs = <<>> THEN <<>>
    ELSE (IF Head(msgs).role = "assistant" THEN <<Head(msgs).content>> ELSE <<>>)
         \o AssistantContents(Tail(msgs))

\* `Agent reached maximum iterations (${maxIterations}). Partial response returned.`
ExhaustedMessage == <<"Agent reached maximum iterations">>

\* "Max iterations reached" with the condition thrown instead of reported.
ExhaustedThrows(s) == Throw(s, [name |-> "Error", origin |-> "exhausted"])

\* "Max iterations reached": onError, then the partial answer is returned.
Exhausted(s) ==
    LET joined == JoinNL(AssistantContents(s.fullMessages))
    IN  [s EXCEPT !.callbacks = Append(@, Callback("onError", ExhaustedMessage)),
                  !.ret = IF joined # <<>> THEN joined ELSE ExhaustedMessage,
                  !.outcome = "exhausted",
                  !.pc = "returned"]

\* while (iteration <= maxIterations)
LoopTestInclusive(s) == s.iteration <= s.maxIterations

\* while (iteration < maxIterations)
LoopTest(s) == s.iteration < s.maxIterations

\* The loop entry without the check of the signal.
EnterLoopUnchecked(s, aborted) ==
    IF LoopTest(s) THEN CallStream([s EXCEPT !.iteration = @ + 1])
    ELSE Exhausted(s)

\* From the while test to the await of llmClient.stream.
EnterLoop(s, aborted) ==
    IF LoopTest(s)
    THEN LET s1 == [s EXCEPT !.iteration = @ + 1]
         IN  IF aborted THEN Throw(s1, AbortError) ELSE CallStream(s1)
    ELSE Exhausted(s)

\* The calls of the response: response.tool_calls, or none.
ToolCalls(response) ==
    IF ~response.tool_calls.undef /\ Len(response.tool_calls.v) > 0
    THEN response.tool_calls.v ELSE <<>>

\* All the remaining calls of the round started together (Promise.all),
\* the first of them awaited.
DispatchAll(s) ==
    LET calls == ToolCalls(s.response)
        toolName == calls[s.i].name
        toolArgs == ToolArgs(calls[s.i].arguments)
    IN  [s EXCEPT !.callbacks = Append(@, Callback("onThinking", <<toolName>>)),
                  !.exec = [lookup |-> RegistryGet(registry, toolName),
                            name |-> toolName, args |-> toolArgs.value],
                  !.dispatches =
                      @ \o [k \in 1..(Len(calls) - s.i + 1) |->
                              [name |-> calls[s.i + k - 1].name,
                               args |-> ToolArgs(calls[s.i + k - 1].arguments).value]],
                  !.pc = "executing"]

\* The tool-call loop from the signal check to the await of execute, for
\* the call at s.i.  execute runs to its own first await at once: it
\* looks the tool up and calls it.
Dispatch(s) ==
    LET toolCall == ToolCalls(s.response)[s.i]
        toolName == toolCall.name
        toolArgs == ToolArgs(toolCall.arguments)
    IN  IF toolArgs.threw THEN Throw(s, [name |-> "SyntaxError", origin |-> "arguments"])
        ELSE [s EXCEPT !.callbacks = Append(@, Callback("onThinking", <<toolName>>)),
                       !.exec = [lookup |-> RegistryGet(registry, toolName),
                                 name |-> toolName, args |-> toolArgs.value],
                       !.dispatches = Append(@, [name |-> toolName, args |-> toolArgs.value]),
                       !.pc = "executing"]

\* The head of the tool-call loop without the check of the signal.
NextToolUnchecked(s, aborted) ==
    IF s.i > Len(ToolCalls(s.response))
    THEN EnterLoop([s EXCEPT !.fullText = <<>>], aborted)
    ELSE Dispatch(s)

\* The signal checked after every tool, the last of a round as well.
NextToolCheckedAtEnd(s, aborted) ==
    IF aborted THEN Throw(s, AbortError)
    ELSE IF s.i > Len(ToolCalls(s.response))
    THEN EnterLoop([s EXCEPT !.fullText = <<>>], aborted)
    ELSE Dispatch(s)

\* The head of "for (const toolCall of response.tool_calls)": after the
\* last call, fullText is reset and the while loop continues.
NextTool(s, aborted) ==
    IF s.i > Len(ToolCalls(s.response))
    THEN EnterLoop([s EXCEPT !.fullText = <<>>], aborted)
    ELSE IF aborted THEN Throw(s, AbortError)
    ELSE Dispatch(s)

\* The onDelta callback run passes to stream, applied to one delta:
\* fullText grows by the content and onToken is called; onThinking is
\* called for every entry that carries a name.
OnDelta(s, delta) ==
    LET s1 == IF delta.content # <<>>
              THEN [s EXCEPT !.fullText = @ \o delta.content,
                             !.callbacks = Append(@, Callback("onToken", delta.content))]
              ELSE s
        named == SelectSeq(delta.tool_calls, LAMBDA tc : tc.name # "")
    IN  [s1 EXCEPT !.callbacks =
            @ \o [k \in 1..Len(named) |-> Callback("onThinking", <<named[k].name>>)]]

RECURSIVE OnDeltas(_, _)
OnDeltas(s, deltas) ==
    IF deltas = <<>> THEN s ELSE OnDeltas(OnDelta(s, Head(deltas)), Tail(deltas))

\* The final response is also pushed to the history.
DoneAppending(s) ==
    LET finalResponse == IF ~s.response.content.null THEN s.response.content.v
                         ELSE s.fullText
    IN  [s EXCEPT !.fullMessages = Append(@, Message("assistant", finalResponse, "", <<>>)),
                  !.callbacks = Append(@, Callback("onDone", finalResponse)),
                  !.ret = finalResponse,
                  !.outcome = "done",
                  !.pc = "returned"]

\* The final response returned without onDone being called.
DoneSilent(s) ==
    LET finalResponse == IF ~s.response.content.null /\ s.response.content.v # <<>>
                         THEN s.response.content.v
                         ELSE s.fullText
    IN  [s EXCEPT !.ret = finalResponse,
                  !.outcome = "done",
                  !.pc = "returned"]

\* "No tool calls -> final text response":
\* finalResponse = response.content || fullText || ''.
Done(s) ==
    LET finalResponse == IF ~s.response.content.null /\ s.response.content.v # <<>>
                         THEN s.response.content.v
                         ELSE s.fullText
    IN  [s EXCEPT !.callbacks = Append(@, Callback("onDone", finalResponse)),
                  !.ret = finalResponse,
                  !.outcome = "done",
                  !.pc = "returned"]

\* The assistant message without the calls it requested.
AssistantMessageBare(response) ==
    Message("assistant", IF response.content.null THEN <<>> ELSE response.content.v,
            "", <<>>)

\* { role: 'assistant', content: response.content || '', tool_calls: response.tool_calls }
AssistantMessage(response) ==
    Message("assistant", IF response.content.null THEN <<>> ELSE response.content.v,
            "", response.tool_calls.v)

\* The tool message carrying the tool's name where the call's id belongs.
ToolMessageByName(result, toolCall) == Message("tool", result, toolCall.name, <<>>)

\* { role: 'tool', content: result, tool_call_id: toolCall.id }
ToolMessage(result, toolCall) == Message("tool", result, toolCall.id, <<>>)

\* From the settling of llmClient.stream to the next await or to the end:
\* d is the decoder's final state for the response body.
OnResponse(s, d, aborted) ==
    LET s1 == [OnDeltas(s, d.deltas) EXCEPT !.response = StreamResult(d)]
    IN  IF d.threw THEN Throw(s, [name |-> "SyntaxError", origin |-> "decode"])
        ELSE IF Len(ToolCalls(s1.response)) > 0
        THEN NextTool([s1 EXCEPT
                         !.fullMessages = Append(@, AssistantMessage(s1.response)),
                         !.rounds = Append(@, [response |-> s1.response, results |-> <<>>]),
                         !.i = 1],
                      aborted)
        ELSE Done(s1)

\* The awaited execution never hands its result to the loop: run stays at
\* its await.
OnToolResultNeverSettles(s, aborted) == s

\* From the settling of toolRegistry.execute to the next await or to the
\* end.
OnToolResult(s, aborted) ==
    LET toolCall == ToolCalls(s.response)[s.i]
        settled == ExecuteOutcome(s.exec.lookup, s.exec.name, s.exec.args)
        result == settled.value
    IN  IF settled.threw THEN Throw(s, [name |-> "Error", origin |-> "tool"])
        ELSE NextTool([s EXCEPT
                         !.callbacks = Append(@, Callback("onToolResult",
                                                          <<s.exec.name>> \o result)),
                         !.fullMessages = Append(@, ToolMessage(result, toolCall)),
                         !.rounds[Len(s.rounds)].results = Append(@, result),
                         !.exec = NoExec,
                         !.i = @ + 1],
                      aborted)

\* run with the system message put after the caller's messages.
StartSystemLast(s, aborted) ==
    EnterLoop([s EXCEPT !.toolDefs = ToDefinitions(registry),
                        !.fullMessages = Append(s.messages,
                                                Message("system", SystemPrompt, "", <<>>)),
                        !.iteration = 0,
                        !.abortedAtCall = aborted],
              aborted)

\* run(messages, callbacks, signal) from its call to its first await.
Start(s, aborted) ==
    EnterLoop([s EXCEPT !.toolDefs = ToDefinitions(registry),
                        !.fullMessages = <<Message("system", SystemPrompt, "", <<>>)>>
                                         \o s.messages,
                        !.iteration = 0,
                        !.abortedAtCall = aborted],
              aborted)

(***************************************************************************)
(* The actions of the agent loop.                                          *)
(***************************************************************************)
AgentInit ==
    /\ registry \in Registries
    /\ \E m \in 1..MaxIter, msgs \in Inputs :
          run = [r \in RunIds |-> IF r = 1 THEN NewRun(m, msgs, 1) ELSE UnusedRun]
    /\ signal = [r \in RunIds |-> FALSE]

Live(r) == run[r].pc \in {"ready", "inflight", "executing"}

\* The history kept in a field of the runner, which every invocation in
\* progress reads and writes.
StepOfShared(runs, r, s) ==
    [q \in RunIds |->
        IF q = r THEN s
        ELSE IF runs[q].pc \in {"inflight", "executing"}
        THEN [runs[q] EXCEPT !.fullMessages = s.fullMessages]
        ELSE runs[q]]

\* The history built in the caller's array itself (the system message
\* put in front of it, every later message pushed to it).
StepOfAliased(runs, r, s) ==
    [runs EXCEPT ![r] = [s EXCEPT !.messages = s.fullMessages]]

\* toolDefs, fullMessages, iteration, fullText and response are locals of
\* the invocation: a step of invocation r writes the record of r alone.
StepOf(runs, r, s) == [runs EXCEPT ![r] = s]

\* The rejection reported through onError before it is thrown again.
OnStreamRejectedReported(s, err) ==
    [s EXCEPT !.pc = "thrown", !.error = err,
              !.callbacks = Append(@, Callback("onError", <<err.name>>))]

\* await llmClient.stream(...) rejects: run has no try/catch around it,
\* so the rejection is the rejection of run.
OnStreamRejected(s, err) == Throw(s, err)

\* The signal given to fetch by the request in flight has been aborted.
InFlightAborted(r) ==
    LET att == Last(run[r].attached)
    IN  att \in RunIds /\ signal[att]

\* The caller calls run.
Run(r) ==
    /\ run[r].pc = "ready"
    /\ run' = StepOf(run, r, Start(run[r], signal[r]))
    /\ UNCHANGED <<registry, signal>>
    /\ UNCHANGED streamVars
    /\ UNCHANGED storeVars
    /\ UNCHANGED registryVars
    /\ UNCHANGED chunkVars
    /\ UNCHANGED viewVars

\* The caller aborts the signal: before the call or at any await.
Cancel(r) ==
    /\ Live(r)
    /\ ~signal[r]
    /\ signal' = [signal EXCEPT ![r] = TRUE]
    /\ UNCHANGED <<registry, run>>
    /\ UNCHANGED streamVars
    /\ UNCHANGED storeVars
    /\ UNCHANGED registryVars
    /\ UNCHANGED chunkVars
    /\ UNCHANGED viewVars

\* The response body has been read to its end.
StreamResolve(r) ==
    /\ run[r].pc = "inflight"
    /\ ~InFlightAborted(r)
    /\ \E d \in Replies :
          run' = StepOf(run, r, OnResponse(run[r], d, signal[r]))
    /\ UNCHANGED <<registry, signal>>
    /\ UNCHANGED streamVars
    /\ UNCHANGED storeVars
    /\ UNCHANGED registryVars
    /\ UNCHANGED chunkVars
    /\ UNCHANGED viewVars

\* The transport fails: a non-success status (before any frame), or a
\* fault of the network after a first delta.
StreamFail(r) ==
    /\ run[r].pc = "inflight"
    /\ ~InFlightAborted(r)
    /\ \E early \in BOOLEAN :
          run' = StepOf(run, r,
                    OnStreamRejected(
                        IF early THEN run[r]
                        ELSE OnDelta(run[r], [content |-> <<"E">>, tool_calls |-> <<>>]),
                        [name |-> "Error", origin |-> "transport"]))
    /\ UNCHANGED <<registry, signal>>
    /\ UNCHANGED streamVars
    /\ UNCHANGED storeVars
    /\ UNCHANGED registryVars
    /\ UNCHANGED chunkVars
    /\ UNCHANGED viewVars

\* The signal was aborted while the request was in flight: fetch, or the
\* read of the body, rejects with the AbortError.
StreamAbort(r) ==
    /\ run[r].pc = "inflight"
    /\ InFlightAborted(r)
    /\ run' = StepOf(run, r, OnStreamRejected(run[r], AbortError))
    /\ UNCHANGED <<registry, signal>>
    /\ UNCHANGED streamVars
    /\ UNCHANGED storeVars
    /\ UNCHANGED registryVars
    /\ UNCHANGED chunkVars
    /\ UNCHANGED viewVars

\* The tool execution awaited settles.
ToolResolve(r) ==
    /\ run[r].pc = "executing"
    /\ run' = StepOf(run, r, OnToolResult(run[r], signal[r]))
    /\ UNCHANGED <<registry, signal>>
    /\ UNCHANGED streamVars
    /\ UNCHANGED storeVars
    /\ UNCHANGED registryVars
    /\ UNCHANGED chunkVars
    /\ UNCHANGED viewVars

AgentNext ==
    \E r \in RunIds :
        \/ Run(r)
        \/ Cancel(r)
        \/ StreamResolve(r)
        \/ StreamFail(r)
        \/ StreamAbort(r)
        \/ ToolResolve(r)

StreamIdle ==
    /\ sent = [frames |-> <<>>, terminated |-> TRUE, status |-> 200]
    /\ stream = <<>>
    /\ wire = <<>>
    /\ dec = DecoderInit
    /\ spc = "done"
    /\ failure = <<>>
    /\ torn = FALSE

Init == AgentInit /\ StreamIdle /\ RegistryIdle /\ StoreIdle /\ ChunkIdle /\ ViewIdle

Spec == Init /\ [][AgentNext]_vars

\* A run that was constructed is called, every transport call settles
\* (resolves, fails or is aborted) and every tool execution settles: the
\* event loop runs the continuation of a settled promise.  The caller
\* need not cancel.
AgentFairness ==
    \A r \in RunIds :
        /\ WF_vars(Run(r))
        /\ WF_vars(StreamResolve(r) \/ StreamFail(r) \/ StreamAbort(r))
        /\ WF_vars(ToolResolve(r))

SpecLive == Init /\ [][AgentNext]_vars /\ AgentFairness

\* Largest iteration ceiling of two invocations in progress together.
MaxPairIter == 2

\* The two callers pass different lists: the first the one-message list,
\* the second the three-message list.
PairInput(r) == CHOOSE msgs \in Inputs : Len(msgs) = (IF r = 1 THEN 1 ELSE 3)

\* The iteration ceilings of the second invocation.
SecondCeilings == {1, 2}

\* Two invocations of run in progress together, their runners built on
\* one registry: each has its own ceiling, messages and signal.
InitPair ==
    /\ registry \in Registries
    /\ \E m1 \in 1..MaxPairIter, m2 \in SecondCeilings :
          run = [r \in RunIds |-> IF r = 1 THEN NewRun(m1, PairInput(1), 1)
                                  ELSE NewRun(m2, PairInput(2), 2)]
    /\ signal = [r \in RunIds |-> FALSE]
    /\ StreamIdle
    /\ RegistryIdle
    /\ StoreIdle
    /\ ChunkIdle
    /\ ViewIdle

SpecPair == InitPair /\ [][AgentNext]_vars

(***************************************************************************)
(* ToolRegistry's operations, explored on their own under SpecRegistry:    *)
(* every bounded sequence of register, unregister and clear calls, each    *)
(* followed by any of get, execute and toDefinitions.                      *)
(***************************************************************************)
\* Largest number of register, unregister and clear calls explored.
MaxOps == 3

\* Map.set(key, value) with key = tool.name, keeping the first tool
\* registered under a name.
MapSetKeepFirst(map, tool) ==
    IF \E i \in 1..Len(map) : map[i].name = tool.name THEN map
    ELSE Append(map, tool)

\* Map.set(key, value) with key = tool.name: the value of an existing key
\* is replaced where it stands, a new key goes to the end.
MapSet(map, tool) ==
    IF \E i \in 1..Len(map) : map[i].name = tool.name
    THEN [i \in 1..Len(map) |-> IF map[i].name = tool.name THEN tool ELSE map[i]]
    ELSE Append(map, tool)

\* A delete that removes nothing.
MapDeleteNothing(map, name) == map

\* Map.delete(key)
MapDelete(map, name) ==
    LET Other(t) == t.name # name
    IN  SelectSeq(map, Other)

\* The tools callers register: two tools named n0 that differ in
\* description, parameters and behaviour, and two named n1.
RegistryTools ==
    { Tool("n0", "d0", "p0", "lookup"), Tool("n0", "e0", "q0", "throws"),
      Tool("n1", "d1", "p1", "throws"), Tool("n1", "e1", "q1", "rejects") }

\* The names callers ask for: n2 is never registered.
ToolNames == {"n0", "n1", "n2"}

LogEntry(op, name, tool) == [op |-> op, name |-> name, tool |-> tool]

\* What a get, execute or toDefinitions call gave its caller.
Observation(op, name, lookup, outcome, defs) ==
    [op |-> op, name |-> name, lookup |-> lookup, outcome |-> outcome, defs |-> defs]

NoLookup == [found |-> FALSE, tool |-> NoTool]

NoOutcome == [threw |-> FALSE, value |-> <<>>]

\* register(tool)
Register ==
    /\ Len(log) < MaxOps
    /\ \E tool \in RegistryTools :
          /\ registry' = MapSet(registry, tool)
          /\ log' = Append(log, LogEntry("register", tool.name, tool))
    /\ observed' = <<>>
    /\ UNCHANGED <<run, signal>>
    /\ UNCHANGED streamVars
    /\ UNCHANGED storeVars
    /\ UNCHANGED chunkVars
    /\ UNCHANGED viewVars

\* unregister(name)
Unregister ==
    /\ Len(log) < MaxOps
    /\ \E name \in ToolNames :
          /\ registry' = MapDelete(registry, name)
          /\ log' = Append(log, LogEntry("unregister", name, NoTool))
    /\ observed' = <<>>
    /\ UNCHANGED <<run, signal>>
    /\ UNCHANGED streamVars
    /\ UNCHANGED storeVars
    /\ UNCHANGED chunkVars
    /\ UNCHANGED viewVars

\* clear()
Clear ==
    /\ Len(log) < MaxOps
    /\ registry' = <<>>
    /\ log' = Append(log, LogEntry("clear", "", NoTool))
    /\ observed' = <<>>
    /\ UNCHANGED <<run, signal>>
    /\ UNCHANGED streamVars
    /\ UNCHANGED storeVars
    /\ UNCHANGED chunkVars
    /\ UNCHANGED viewVars

\* get(name)
Get ==
    /\ \E name \in ToolNames :
          observed' = <<Observation("get", name, RegistryGet(registry, name),
                                    NoOutcome, <<>>)>>
    /\ UNCHANGED <<registry, run, signal, log>>
    /\ UNCHANGED streamVars
    /\ UNCHANGED storeVars
    /\ UNCHANGED chunkVars
    /\ UNCHANGED viewVars

\* execute(name, args), to the settling of the promise it returns.
Execute ==
    /\ \E name \in ToolNames, args \in {"Q", "Z"} :
          LET lookup == RegistryGet(registry, name)
          IN  observed' = <<Observation("execute", name, lookup,
                                        ExecuteOutcome(lookup, name, args), <<>>)>>
    /\ UNCHANGED <<registry, run, signal, log>>
    /\ UNCHANGED streamVars
    /\ UNCHANGED storeVars
    /\ UNCHANGED chunkVars
    /\ UNCHANGED viewVars

\* toDefinitions()
GetDefinitions ==
    /\ observed' = <<Observation("toDefinitions", "", NoLookup, NoOutcome,
                                  ToDefinitions(registry))>>
    /\ UNCHANGED <<registry, run, signal, log>>
    /\ UNCHANGED streamVars
    /\ UNCHANGED storeVars
    /\ UNCHANGED chunkVars
    /\ UNCHANGED viewVars

RegistryNext ==
    \/ Register
    \/ Unregister
    \/ Clear
    \/ Get
    \/ Execute
    \/ GetDefinitions

\* new ToolRegistry(): the map is empty.
InitRegistry == AgentIdle /\ StreamIdle /\ RegistryIdle /\ StoreIdle /\ ChunkIdle /\ ViewIdle

SpecRegistry == InitRegistry /\ [][RegistryNext]_vars

(***************************************************************************)
(* Claims about ToolRegistry, checked under SpecRegistry.                  *)
(***************************************************************************)
\* The tool a name stands for after the calls of a log, read off the log
\* alone: the tool of the latest register of that name, unless an
\* unregister of the name or a clear came after it (<<>>: none).
RECURSIVE Current(_, _)
Current(calls, name) ==
    IF calls = <<>> THEN <<>>
    ELSE LET e == Last(calls)
         IN  IF e.op = "clear" THEN <<>>
             ELSE IF e.op = "unregister" /\ e.name = name THEN <<>>
             ELSE IF e.op = "register" /\ e.name = name THEN <<e.tool>>
             ELSE Current(Front(calls), name)

Executed == observed # <<>> /\ observed[1].op = "execute"

\* A JSON object text with the single member error.
ErrorShaped(text) ==
    Len(text) >= 3 /\ Head(text) = "{\"error\":" /\ Last(text) = "}"

\* C11: execute with a name that is not registered at the time resolves
\* (does not reject) to the JSON object whose error member names the
\* unknown tool, and leaves the registry as it was.
C11_UnknownToolPayload ==
    [][(/\ observed' # <<>>
        /\ observed'[1].op = "execute"
        /\ Current(log', observed'[1].name) = <<>>)
       => /\ registry' = registry
          /\ ~observed'[1].outcome.threw
          /\ observed'[1].outcome.value
                = <<"{\"error\":", "Unknown tool: ", observed'[1].name, "}">>]_vars

\* C11's case: execute of n0 after n0 was registered and removed again,
\* another tool still being registered.
C11_Witness ==
    /\ Executed
    /\ observed[1].name = "n0"
    /\ Current(log, "n0") = <<>>
    /\ \E i \in 1..Len(log) : log[i].op = "register" /\ log[i].name = "n0"
    /\ registry # <<>>

\* C12: execute never rejects; on a registered tool that throws or
\* rejects it resolves to the JSON object whose error member is the
\* fault's message, the shape of the unknown-tool payload.
C12_ToolFaultPayload ==
    Executed =>
        LET o == observed[1]
            tool == Current(log, o.name)
        IN  /\ ~o.outcome.threw
            /\ (tool # <<>> /\ tool[1].behaviour \in {"throws", "rejects"})
                  => /\ ErrorShaped(o.outcome.value)
                     /\ o.outcome.value
                          = <<"{\"error\":">>
                            \o (IF tool[1].behaviour = "throws" THEN <<"boom">>
                                ELSE <<"late">>)
                            \o <<"}">>
            /\ tool = <<>> => ErrorShaped(o.outcome.value)

\* C12's case: execute of a registered tool whose promise rejects.
C12_Witness ==
    /\ Executed
    /\ Current(log, observed[1].name) # <<>>
    /\ Current(log, observed[1].name)[1].behaviour = "rejects"
    /\ ~observed[1].outcome.threw

\* C13: the registry holds one tool per name, and get and execute of a
\* name use the tool registered last under it: registering a name again
\* replaces the tool, it is no error.
C13_LastRegistrationWins ==
    /\ \A i, j \in 1..Len(registry) : registry[i].name = registry[j].name => i = j
    /\ \A name \in ToolNames :
          LET tool == Current(log, name)
              lookup == RegistryGet(registry, name)
          IN  IF tool = <<>> THEN ~lookup.found
              ELSE lookup.found /\ lookup.tool = tool[1]
    /\ (observed # <<>> /\ observed[1].op \in {"get", "execute"}) =>
          LET o == observed[1]
              tool == Current(log, o.name)
          IN  /\ o.lookup.found = (tool # <<>>)
              /\ tool # <<>> => o.lookup.tool = tool[1]
              /\ (o.op = "execute" /\ tool # <<>> /\ tool[1].behaviour = "lookup")
                    => o.outcome.value \in {<<"hit">>, <<"none">>}
              /\ (o.op = "execute" /\ tool # <<>> /\ tool[1].behaviour # "lookup")
                    => ErrorShaped(o.outcome.value)

\* C13's case: n0 was registered twice in a row with different tools and
\* then executed.
C13_Witness ==
    /\ Executed
    /\ observed[1].name = "n0"
    /\ Len(log) >= 2
    /\ log[Len(log)].op = "register" /\ log[Len(log)].name = "n0"
    /\ log[Len(log) - 1].op = "register" /\ log[Len(log) - 1].name = "n0"
    /\ log[Len(log)].tool # log[Len(log) - 1].tool
    /\ Len(registry) = 1

\* C14: toDefinitions gives exactly one definition per tool registered at
\* the time of the call, made of that tool's name, description and
\* parameters, and none for a tool that was removed or replaced.
C14_DefinitionsCurrent ==
    (observed # <<>> /\ observed[1].op = "toDefinitions") =>
        LET defs == observed[1].defs
            DefOf(tool) ==
                [type |-> "function",
                 function |-> [name |-> tool.name, description |-> tool.description,
                               parameters |-> tool.parameters]]
        IN  /\ Len(defs) = Cardinality({n \in ToolNames : Current(log, n) # <<>>})
            /\ \A i \in 1..Len(defs) :
                  /\ Current(log, defs[i].function.name) # <<>>
                  /\ defs[i] = DefOf(Current(log, defs[i].function.name)[1])
            /\ \A n \in ToolNames : Current(log, n) # <<>> =>
                  \E i \in 1..Len(defs) : defs[i].function.name = n

\* C14's case: toDefinitions after two tools were registered and one of
\* them unregistered.
C14_Witness ==
    /\ observed # <<>>
    /\ observed[1].op = "toDefinitions"
    /\ Len(log) = 3
    /\ log[1].op = "register" /\ log[2].op = "register" /\ log[3].op = "unregister"
    /\ log[3].name \in {log[1].name, log[2].name}
    /\ log[1].name # log[2].name
    /\ Len(observed[1].defs) = 1

(***************************************************************************)
(* Claims about AgentRunner.run, checked under Spec.                       *)
(***************************************************************************)
Started(r) == run[r].pc \in {"inflight", "executing", "returned", "thrown"}

\* What executing a requested call gives: the registry's answer for the
\* call's name and parsed arguments.
ExpectedResult(call) ==
    ExecuteOutcome(RegistryGet(registry, call.name), call.name,
                   ToolArgs(call.arguments).value).value

\* The messages of one tool round of which n calls have been executed: the
\* assistant message with the reply's text and all its calls, then one
\* tool message per executed call, in request order.
RoundMessages(round, n) ==
    LET calls == round.response.tool_calls.v
        text == IF round.response.content.null THEN <<>> ELSE round.response.content.v
    IN  <<Message("assistant", text, "", calls)>>
        \o [j \in 1..n |-> Message("tool", ExpectedResult(calls[j]), calls[j].id, <<>>)]

\* The history a run with these rounds must hold.
HistoryOf(s) ==
    <<Message("system", SystemPrompt, "", <<>>)>> \o s.messages
    \o Flatten([k \in 1..Len(s.rounds) |->
                   RoundMessages(s.rounds[k], Len(s.rounds[k].results))])

RoundComplete(round) == Len(round.results) = Len(round.response.tool_calls.v)

\* C3: a run never calls llmClient.stream more than maxIterations times,
\* however many tool calls its rounds request (the witness: the ceiling is
\* reached while more tools than that have been dispatched).
C3_StreamCallsBounded ==
    \A r \in RunIds : Len(run[r].requests) <= run[r].maxIterations

\* C3's case: the ceiling of round trips is reached and the tool
\* dispatches outnumber it.
C3_Witness ==
    \E r \in RunIds :
        /\ Started(r)
        /\ Len(run[r].requests) = run[r].maxIterations
        /\ Len(run[r].dispatches) > run[r].maxIterations

\* C4: the history is the system message, the input and, per model turn
\* with N >= 1 tool calls, one assistant message carrying the turn's text
\* and all N calls followed by the tool messages of the calls executed so
\* far, in request order, each with its call's id and the result of
\* executing it; a round the run went past, or ended normally after, has
\* all N tool messages.
C4_RoundAppends ==
    \A r \in RunIds : Started(r) =>
        LET s == run[r]
        IN  /\ s.fullMessages = HistoryOf(s)
            /\ \A k \in 1..Len(s.rounds) :
                  /\ Len(s.rounds[k].response.tool_calls.v) >= 1
                  /\ (k < Len(s.rounds) \/ s.pc \in {"inflight", "returned"})
                        => RoundComplete(s.rounds[k])

\* C4's case: an uncancelled run has ended after two rounds, one of them
\* with three calls.
C4_Witness ==
    \E r \in RunIds :
        /\ run[r].pc = "returned"
        /\ ~signal[r]
        /\ Len(run[r].rounds) = 2
        /\ Len(run[r].rounds[1].response.tool_calls.v) = 3
        /\ Len(run[r].fullMessages) > Len(run[r].messages) + 5

\* C5: when every one of the maxIterations turns returned tool calls and
\* all of them were executed, run has returned (not thrown) with the
\* iteration-exhausted outcome: a non-empty string, after reporting the
\* condition through onError.
C5_ExhaustedReturns ==
    \A r \in RunIds :
        (/\ Started(r)
         /\ Len(run[r].rounds) = run[r].maxIterations
         /\ RoundComplete(Last(run[r].rounds)))
        => /\ run[r].pc = "returned"
           /\ run[r].outcome = "exhausted"
           /\ run[r].ret # <<>>
           /\ Last(run[r].callbacks) = Callback("onError", ExhaustedMessage)

\* C5's case: an uncancelled run with the largest ceiling whose turns all
\* requested tools.
C5_Witness ==
    \E r \in RunIds :
        /\ run[r].pc = "returned"
        /\ ~signal[r]
        /\ run[r].maxIterations = MaxIter
        /\ Len(run[r].rounds) = MaxIter
        /\ Len(run[r].requests) = MaxIter

\* C6: a run called with the signal already set ends with the AbortError,
\* having sent no request and dispatched no tool, its history being the
\* system message and the caller's messages only.
C6_AbortedAtCall ==
    \A r \in RunIds : (Started(r) /\ run[r].abortedAtCall) =>
        /\ run[r].pc = "thrown"
        /\ run[r].error = AbortError
        /\ run[r].requests = <<>>
        /\ run[r].dispatches = <<>>
        /\ run[r].callbacks = <<>>
        /\ run[r].fullMessages
              = <<Message("system", SystemPrompt, "", <<>>)>> \o run[r].messages

\* C6's case: run was called with the signal set and a history of three
\* input messages.
C6_Witness ==
    \E r \in RunIds :
        /\ run[r].abortedAtCall
        /\ run[r].pc = "thrown"
        /\ Len(run[r].messages) = 3

\* C7: a run in the done state returned exactly the text of its last
\* turn, which requested no tool, and reported it through onDone; that
\* text is not in the history, which holds the system message, the input
\* and the complete tool rounds only.
C7_DoneReturnsLastText ==
    \A r \in RunIds : run[r].outcome = "done" =>
        LET s == run[r]
            text == IF s.response.content.null THEN <<>> ELSE s.response.content.v
        IN  /\ s.pc = "returned"
            /\ ToolCalls(s.response) = <<>>
            /\ s.ret = text
            /\ Last(s.callbacks) = Callback("onDone", text)
            /\ Len(s.requests) = Len(s.rounds) + 1
            /\ \A k \in 1..Len(s.rounds) : RoundComplete(s.rounds[k])
            /\ Len(s.fullMessages) = 1 + Len(s.messages) + Len(s.rounds) + Len(s.dispatches)
            /\ s.fullMessages = HistoryOf(s)

\* C7's case: a text turn after two tool rounds, the first of which also
\* carried a (different) text.
C7_Witness ==
    \E r \in RunIds :
        /\ run[r].outcome = "done"
        /\ Len(run[r].rounds) = 2
        /\ ~run[r].rounds[1].response.content.null
        /\ run[r].ret # <<>>
        /\ run[r].ret # run[r].rounds[1].response.content.v

\* C8: with an empty registry no request of a run has a tools field; with
\* a non-empty one every request has it, with one definition per
\* registered tool.
C8_ToolsField ==
    \A r \in RunIds : \A n \in 1..Len(run[r].requests) :
        LET body == run[r].requests[n]
        IN  IF registry = <<>>
            THEN ~body.hasTools /\ body.tools = <<>>
            ELSE /\ body.hasTools
                 /\ Len(body.tools) = Len(registry)
                 /\ \A i \in 1..Len(registry) :
                       body.tools[i].function.name = registry[i].name

\* C8's case: a run over the empty registry has sent a second request
\* (after a turn that asked for a tool all the same).
C8_Witness ==
    \E r \in RunIds :
        /\ registry = <<>>
        /\ Len(run[r].requests) = 2
        /\ Len(run[r].dispatches) >= 1

\* The run passes a check of the signal in the step s -> t: at the call of
\* run (the first loop entry), or after an awaited tool when another call
\* of the round, or another iteration, is still to come.
ChecksSignal(s) ==
    \/ s.pc = "ready" /\ s.maxIterations >= 1
    \/ /\ s.pc = "executing"
       /\ \/ s.i < Len(ToolCalls(s.response))
          \/ s.iteration < s.maxIterations

\* C9: a step of a run that comes to a loop entry or to a tool dispatch
\* with the signal set ends the run with the AbortError: no request is
\* sent, no tool dispatched, and the history gets nothing past the check
\* (only the result of the tool that was awaited, pushed before it).
C9_CancelAtCheckPoint ==
    [][\A r \in RunIds :
          (signal[r] /\ run'[r] # run[r] /\ ChecksSignal(run[r])) =>
              /\ run'[r].pc = "thrown"
              /\ run'[r].error = AbortError
              /\ run'[r].requests = run[r].requests
              /\ run'[r].dispatches = run[r].dispatches
              /\ IF run[r].pc = "ready"
                 THEN run'[r].fullMessages
                        = <<Message("system", SystemPrompt, "", <<>>)>> \o run[r].messages
                 ELSE /\ Len(run'[r].fullMessages) = Len(run[r].fullMessages) + 1
                      /\ Front(run'[r].fullMessages) = run[r].fullMessages
                      /\ Last(run'[r].fullMessages).role = "tool"]_vars

\* C9's case: the signal was set while a tool ran; the run ended at the
\* check before the round's next call, with part of the round's results.
C9_Witness ==
    \E r \in RunIds :
        /\ run[r].pc = "thrown"
        /\ run[r].error = AbortError
        /\ run[r].rounds # <<>>
        /\ Last(run[r].rounds).results # <<>>
        /\ ~RoundComplete(Last(run[r].rounds))

\* C10: a run that ended with a thrown error met a transport failure or a
\* cancellation; nothing else makes run throw.
C10_ThrowsOnlyTransportOrCancel ==
    \A r \in RunIds : run[r].pc = "thrown" =>
        run[r].error.origin \in {"transport", "cancel"}

\* C10's case: a run has returned although it met a malformed frame, an
\* unregistered tool, a tool that throws, an argument string that is not
\* JSON, and the iteration ceiling.
C10_Witness ==
    \E r \in RunIds :
        /\ run[r].pc = "returned"
        /\ run[r].outcome = "exhausted"
        /\ registry # <<>>
        /\ \E k \in 1..Len(run[r].rounds) :
              /\ RoundComplete(run[r].rounds[k])
              /\ \E j \in 1..Len(run[r].rounds[k].results) :
                    run[r].rounds[k].results[j] = ErrorPayload(<<"Unknown tool: ", "n2">>)
              /\ \E j \in 1..Len(run[r].rounds[k].results) :
                    run[r].rounds[k].results[j] = ErrorPayload(<<"boom">>)
              /\ \E j \in 1..Len(run[r].rounds[k].results) :
                    /\ ToolCalls(run[r].rounds[k].response)[j].arguments = <<"x">>
                    /\ run[r].rounds[k].results[j] = <<"none">>

\* C19: in every step of a run the history after the step starts with the
\* system message made of the configured prompt, followed by the caller's
\* messages in their order, followed by assistant and tool messages only;
\* the history before the step is a prefix of it (messages are appended,
\* never removed, rewritten, reordered or merged), and the caller's list
\* is left as it was.
C19_HistoryAppendOnly ==
    [][\A r \in RunIds :
          LET s == run[r]
              t == run'[r]
          IN  /\ t.messages = s.messages
              /\ t.pc \in {"inflight", "executing", "returned", "thrown"} =>
                    /\ Len(t.fullMessages) >= 1 + Len(t.messages)
                    /\ t.fullMessages[1] = Message("system", SystemPrompt, "", <<>>)
                    /\ SubSeq(t.fullMessages, 2, 1 + Len(t.messages)) = t.messages
                    /\ \A i \in (2 + Len(t.messages))..Len(t.fullMessages) :
                          t.fullMessages[i].role \in {"assistant", "tool"}
                    /\ Started(r) => IsPrefix(s.fullMessages, t.fullMessages)]_vars

\* C19's case: a run that returned holds the same message twice (two
\* rounds with the same reply) after three input messages.
C19_Witness ==
    \E r \in RunIds :
        /\ run[r].pc = "returned"
        /\ Len(run[r].messages) = 3
        /\ Len(run[r].rounds) >= 2
        /\ \E i, j \in 1..Len(run[r].fullMessages) :
              i < j /\ run[r].fullMessages[i] = run[r].fullMessages[j]

\* The calls of all rounds of a run, in request order.
RequestedCalls(s) ==
    Flatten([k \in 1..Len(s.rounds) |-> s.rounds[k].response.tool_calls.v])

\* The number of tool results a run has appended to its history.
ResultsAppended(s) ==
    Len(SelectSeq(SubSeq(s.fullMessages, 2 + Len(s.messages), Len(s.fullMessages)),
                  LAMBDA m : m.role = "tool"))

\* C20: the tools dispatched so far are the first calls in request order,
\* and at most one of them has not yet completed with its result appended
\* to the history: call i+1 is dispatched only after the result of call i
\* was appended, and exactly one execution is in progress while run awaits
\* a tool, none otherwise.
C20_SequentialDispatch ==
    \A r \in RunIds : Started(r) =>
        LET s == run[r]
            calls == RequestedCalls(s)
            d == Len(s.dispatches)
        IN  /\ d <= Len(calls)
            /\ \A k \in 1..d :
                  s.dispatches[k] = [name |-> calls[k].name,
                                     args |-> ToolArgs(calls[k].arguments).value]
            /\ d - ResultsAppended(s) = (IF s.pc = "executing" THEN 1 ELSE 0)
            /\ s.pc = "executing" =>
                  /\ s.exec.name = s.dispatches[d].name
                  /\ s.exec.args = s.dispatches[d].args

\* C20's case: the second call of a round of three is executing, the
\* first one's result is in the history, the third is not dispatched.
C20_Witness ==
    \E r \in RunIds :
        /\ run[r].pc = "executing"
        /\ Len(Last(run[r].rounds).response.tool_calls.v) = 3
        /\ Len(Last(run[r].rounds).results) = 1
        /\ Last(run[r].fullMessages).role = "tool"
        /\ Len(run[r].dispatches) = Len(RequestedCalls(run[r])) - 1

(***************************************************************************)
(* Two invocations in progress together (SpecPair).                        *)
(***************************************************************************)
\* The records one step of an invocation can write when it runs alone:
\* from record s with its own signal in state aborted.
SoloSteps(s, aborted) ==
    IF s.pc = "ready" THEN {Start(s, aborted)}
    ELSE IF s.pc = "inflight"
    THEN IF aborted THEN {Throw(s, AbortError)}
         ELSE {OnResponse(s, d, aborted) : d \in Replies}
              \cup {Throw(s, [name |-> "Error", origin |-> "transport"]),
                    Throw(OnDelta(s, [content |-> <<"E">>, tool_calls |-> <<>>]),
                          [name |-> "Error", origin |-> "transport"])}
    ELSE IF s.pc = "executing" THEN {OnToolResult(s, aborted)}
    ELSE {}

\* C21: two invocations of run in progress together on one registry that
\* is not mutated do not affect each other: a step of one leaves the
\* other's record (history, requests, dispatches, returned value) as it
\* was, and writes a record the invocation could have written running
\* alone from where it stood.
C21_RunsIndependent ==
    [][\A r \in RunIds :
          run'[r] # run[r] =>
             /\ \A q \in RunIds \ {r} : run'[q] = run[q]
             /\ run'[r] \in SoloSteps(run[r], signal[r])]_vars

\* Both invocations are at an await with a round behind them, their
\* histories different.
C21_Witness ==
    /\ run[1].pc = "executing"
    /\ run[2].pc = "inflight"
    /\ Len(run[1].rounds) >= 1
    /\ Len(run[2].rounds) >= 1
    /\ Len(run[2].requests) = 2
    /\ run[1].fullMessages # run[2].fullMessages

(***************************************************************************)
(* Cancellation and transport failure (Spec).                              *)
(***************************************************************************)
Settled(r) == run[r].pc \in {"returned", "thrown"}

\* A transport failure is never of the cancellation kind.
TransportNeverAbort(r) ==
    run[r].error.origin = "transport" => run[r].error.name # "AbortError"

\* C22 as stated: every run whose signal was set ends with an error named
\* AbortError, and a transport failure never has that name.
C22_CancellationAlwaysSurfaces ==
    \A r \in RunIds :
        Settled(r) =>
            /\ signal[r] => (run[r].pc = "thrown" /\ run[r].error.name = "AbortError")
            /\ TransportNeverAbort(r)

\* C22 (amended): a run throws an error named AbortError only when its
\* signal was set, a transport failure never has that name, and a run
\* whose signal was set ends with that error unless the signal was set
\* after the last check point, in which case it returns the exhausted
\* outcome.
C22_CancellationDistinct ==
    \A r \in RunIds :
        Settled(r) =>
            /\ run[r].error.name = "AbortError" =>
                   (run[r].pc = "thrown" /\ signal[r] /\ run[r].error.origin = "cancel")
            /\ TransportNeverAbort(r)
            /\ signal[r] =>
                   \/ run[r].pc = "thrown" /\ run[r].error.name = "AbortError"
                   \/ run[r].pc = "returned" /\ run[r].outcome = "exhausted"

\* The signal was set during a later request, and the run threw.
C22_Witness ==
    /\ run[1].pc = "thrown"
    /\ run[1].error.name = "AbortError"
    /\ ~run[1].abortedAtCall
    /\ Len(run[1].requests) >= 2

(***************************************************************************)
(* The exhausted outcome (Spec).                                           *)
(***************************************************************************)
\* No assistant text exists: every assistant message of the history has
\* empty content.
NoAssistantText(msgs) ==
    \A k \in 1..Len(msgs) : msgs[k].role = "assistant" => msgs[k].content = <<>>

\* C23: a run that ends exhausted returns the fixed diagnostic string
\* whenever no assistant text exists, and the concatenation of the
\* assistant messages' text otherwise.
C23_ExhaustedDiagnostic ==
    \A r \in RunIds :
        (run[r].pc = "returned" /\ run[r].outcome = "exhausted") =>
            run[r].ret = IF NoAssistantText(run[r].fullMessages)
                         THEN ExhaustedMessage
                         ELSE JoinNL(AssistantContents(run[r].fullMessages))

(***************************************************************************)
(* The saves of the plugin (SpecStore).  A save call in progress is a      *)
(* record: kind "settings" | "chat" | "palace"; pc "loading" (awaiting     *)
(* loadData) or "saving" (awaiting saveData); data, the object given to    *)
(* saveData.                                                               *)
(***************************************************************************)
\* Largest number of edits made to the settings, the sessions or the palace.
MaxEdits == 2

\* Largest number of save calls in progress together.
MaxInFlight == 2

SaveOp(kind, pc, data) == [kind |-> kind, pc |-> pc, data |-> data]

\* saveSettings: saveData(this.settings), the whole object of the file.
SaveSettings(m) == SaveOp("settings", "saving", m.settings)

\* saveChatSessions and savePalaceData after loadData has resolved with
\* the object d: the key is set and saveData called.
SetKey(kind, d, m) ==
    IF kind = "chat" THEN [d EXCEPT !.chat = Slot(TRUE, m.chatSessions)]
    ELSE [d EXCEPT !.palace = Slot(TRUE, m.palaceData)]

StoreInit ==
    /\ \E d \in StoredData : disk = d /\ mem = OnLoad(d)
    /\ ops = <<>>
    /\ saved = NothingSaved

\* The settings tab: a field of plugin.settings is set and saveSettings
\* called.
ChangeSetting ==
    /\ Len(ops) < MaxInFlight
    /\ mem.settings.settings.v < MaxEdits
    /\ mem' = [mem EXCEPT !.settings.settings.v = @ + 1]
    /\ ops' = Append(ops, SaveSettings(mem'))
    /\ UNCHANGED <<disk, saved>>
    /\ UNCHANGED streamVars
    /\ UNCHANGED agentVars
    /\ UNCHANGED registryVars
    /\ UNCHANGED chunkVars
    /\ UNCHANGED viewVars

\* ChatView.newSession: createChatSession, then saveChatSessions up to its
\* await of loadData (updateChatSession and deleteChatSession likewise
\* change the list and call saveChatSessions).
NewSession ==
    /\ Len(ops) < MaxInFlight
    /\ mem.chatSessions < MaxEdits
    /\ mem' = [mem EXCEPT !.chatSessions = @ + 1]
    /\ ops' = Append(ops, SaveOp("chat", "loading", EmptyData))
    /\ UNCHANGED <<disk, saved>>
    /\ UNCHANGED streamVars
    /\ UNCHANGED agentVars
    /\ UNCHANGED registryVars
    /\ UNCHANGED chunkVars
    /\ UNCHANGED viewVars

\* PalaceView.rateCard: the card is replaced, then savePalaceData up to
\* its await of loadData.
RateCard ==
    /\ Len(ops) < MaxInFlight
    /\ mem.palaceData < MaxEdits
    /\ mem' = [mem EXCEPT !.palaceData = @ + 1]
    /\ ops' = Append(ops, SaveOp("palace", "loading", EmptyData))
    /\ UNCHANGED <<disk, saved>>
    /\ UNCHANGED streamVars
    /\ UNCHANGED agentVars
    /\ UNCHANGED registryVars
    /\ UNCHANGED chunkVars
    /\ UNCHANGED viewVars

\* loadData resolves for the save call at k with the file as it is now.
LoadDataResolved(k) ==
    /\ k \in DOMAIN ops
    /\ ops[k].pc = "loading"
    /\ ops' = [ops EXCEPT ![k] = SaveOp(ops[k].kind, "saving", SetKey(ops[k].kind, disk, mem))]
    /\ UNCHANGED <<disk, mem, saved>>
    /\ UNCHANGED streamVars
    /\ UNCHANGED agentVars
    /\ UNCHANGED registryVars
    /\ UNCHANGED chunkVars
    /\ UNCHANGED viewVars

\* saveData resolves for the save call at k: the file is the object it
\* was given.
SaveDataResolved(k) ==
    /\ k \in DOMAIN ops
    /\ ops[k].pc = "saving"
    /\ disk' = ops[k].data
    /\ ops' = [j \in 1..(Len(ops) - 1) |-> IF j < k THEN ops[j] ELSE ops[j + 1]]
    /\ saved' = IF ops[k].kind = "chat" THEN [saved EXCEPT !.chat = ops[k].data.chat]
                ELSE IF ops[k].kind = "palace"
                THEN [saved EXCEPT !.palace = ops[k].data.palace]
                ELSE saved
    /\ UNCHANGED mem
    /\ UNCHANGED streamVars
    /\ UNCHANGED agentVars
    /\ UNCHANGED registryVars
    /\ UNCHANGED chunkVars
    /\ UNCHANGED viewVars

StoreNext ==
    \/ ChangeSetting
    \/ NewSession
    \/ RateCard
    \/ \E k \in 1..MaxInFlight : LoadDataResolved(k)
    \/ \E k \in 1..MaxInFlight : SaveDataResolved(k)

InitStore == StoreInit /\ AgentIdle /\ StreamIdle /\ RegistryIdle /\ ChunkIdle /\ ViewIdle

SpecStore == InitStore /\ [][StoreNext]_vars

\* C24: once no save call is in progress, the data file holds the chat
\* sessions and the palace data that the latest completed
\* saveChatSessions and savePalaceData wrote.
C24_SessionsPersistent ==
    ops = <<>> =>
        /\ saved.chat.has => disk.chat = saved.chat
        /\ saved.palace.has => disk.palace = saved.palace

(***************************************************************************)
(* The finish reason (SpecStream).                                         *)
(***************************************************************************)
\* The completion reasons the delivered frames supply, in stream order.
DeliveredReasons ==
    LET Supplies(f) == f.json.choices # <<>> /\ f.json.choices[1].finish_reason # ""
        supplying == SelectSeq(DeliveredFrames, Supplies)
    IN  [i \in 1..Len(supplying) |-> supplying[i].json.choices[1].finish_reason]

\* C25: the finish_reason stream returns is the reason of the last frame
\* that supplied one, with or without a delta in that frame, and is stop
\* when no frame supplied one.
C25_LastFinishReasonWins ==
    (spc = "done" /\ Ok(sent.status)) =>
        StreamResult(dec).finish_reason
            = IF DeliveredReasons = <<>> THEN "stop" ELSE Last(DeliveredReasons)

\* C25's case: a frame without a delta supplied stop, a later frame with
\* a delta supplied length, and length is returned.
C25_Witness ==
    /\ spc = "done"
    /\ Ok(sent.status)
    /\ DeliveredReasons = <<"stop", "length">>
    /\ StreamResult(dec).finish_reason = "length"

(***************************************************************************)
(* The terminal sentinel (SpecStream).                                     *)
(***************************************************************************)
IsDone(f) == f.line = <<"DATA", "SP", "DONE">>

\* The frames up to the first one whose payload is the sentinel.
RECURSIVE BeforeDone(_)
BeforeDone(frames) ==
    IF frames = <<>> \/ IsDone(Head(frames)) THEN <<>>
    ELSE <<Head(frames)>> \o BeforeDone(Tail(frames))

\* C26: a frame whose payload is [DONE] ends the stream: text, tool-call
\* fragments, finish reason and the deltas emitted are those of the
\* frames before it, and nothing comes from it or from a frame after it.
C26_DoneEndsStream ==
    (spc = "done" /\ Ok(sent.status)) =>
        LET ended == Feed(DecoderInit, StreamBytes(BeforeDone(DeliveredFrames), TRUE))
        IN  /\ dec.fullContent = ended.fullContent
            /\ dec.acc = ended.acc
            /\ dec.finishReason = ended.finishReason
            /\ dec.deltas = ended.deltas

(***************************************************************************)
(* Tool arguments that are not JSON (Spec).                                *)
(***************************************************************************)
\* The tool messages a run has appended to its history, in order.
ToolMessages(s) ==
    SelectSeq(SubSeq(s.fullMessages, 2 + Len(s.messages), Len(s.fullMessages)),
              LAMBDA m : m.role = "tool")

Unparsable(call) == ~ParseArguments(call.arguments).ok

\* C27: a tool call whose argument string is not JSON does not end the
\* run: the tool is dispatched with the empty object, the result of that
\* execution is appended as the tool message of the call, and the calls
\* after it are dispatched too (a run that returns has dispatched every
\* call requested and appended every result).
C27_UnparsableArgsDispatched ==
    \A r \in RunIds : Started(r) =>
        LET s == run[r]
            calls == RequestedCalls(s)
            results == ToolMessages(s)
        IN  /\ s.error.origin # "arguments"
            /\ \A k \in 1..Len(s.dispatches) :
                  Unparsable(calls[k]) =>
                      s.dispatches[k] = [name |-> calls[k].name, args |-> "{}"]
            /\ \A k \in 1..Len(results) :
                  Unparsable(calls[k]) =>
                      results[k] = Message("tool",
                                           ExecuteOutcome(RegistryGet(registry, calls[k].name),
                                                          calls[k].name, "{}").value,
                                           calls[k].id, <<>>)
            /\ s.pc = "returned" =>
                  /\ Len(s.dispatches) = Len(calls)
                  /\ Len(results) = Len(calls)

\* C27's case: the first of a round's two calls had arguments that are
\* not JSON, both calls were executed and the run went on to return.
C27_Witness ==
    \E r \in RunIds :
        /\ run[r].pc = "returned"
        /\ Len(RequestedCalls(run[r])) = 2
        /\ Unparsable(RequestedCalls(run[r])[1])
        /\ ~Unparsable(RequestedCalls(run[r])[2])
        /\ Len(ToolMessages(run[r])) = 2

(***************************************************************************)
(* Identifier and name of a fragment (SpecStream).                         *)
(***************************************************************************)
\* The entries delivered for index idx, in delivery order.
DeliveredEntries(idx) ==
    LET Entries(json) == IF json.choices = <<>> THEN <<>>
                         ELSE SelectSeq(json.choices[1].delta.tool_calls,
                                        LAMBDA tc : tc.index = idx)
    IN  Flatten([i \in 1..Len(DeliveredFrames) |-> Entries(DeliveredFrames[i].json)])

\* The last non-empty value of a list of strings ("" when there is none).
LastNonEmpty(values) ==
    LET supplied == SelectSeq(values, LAMBDA v : v # "")
    IN  IF supplied = <<>> THEN "" ELSE Last(supplied)

\* C28: the id and the name of every returned tool call are the last
\* non-empty id and name delivered for its index: an entry that omits
\* them or carries an empty value leaves them as they were.
C28_LastNonEmptyIdName ==
    (spc = "done" /\ Ok(sent.status)) =>
        \A i \in 1..Len(dec.acc) :
            LET entries == DeliveredEntries(dec.acc[i].index)
                call == StreamResult(dec).tool_calls.v[i]
            IN  /\ call.id = LastNonEmpty([k \in 1..Len(entries) |-> entries[k].id])
                /\ call.name = LastNonEmpty([k \in 1..Len(entries) |-> entries[k].name])

\* C28's case: index 0 was delivered an id and a name, then an entry with
\* another name and no id, then an entry with another id and no name.
C28_Witness ==
    /\ spc = "done"
    /\ Ok(sent.status)
    /\ Len(DeliveredEntries(0)) = 3
    /\ DeliveredEntries(0)[1].id = "i0"
    /\ DeliveredEntries(0)[2].id = ""
    /\ DeliveredEntries(0)[3].name = ""
    /\ StreamResult(dec).tool_calls.v[1].id = "j0"
    /\ StreamResult(dec).tool_calls.v[1].name = "m0"

(***************************************************************************)
(* The messages of each request (Spec).                                    *)
(***************************************************************************)
\* C29: the messages of a run's k-th request are the system message, the
\* caller's messages and, for each of the rounds 1..k-1 in order, the
\* assistant message of the round followed by the tool message of every
\* call of the round.
C29_RequestCarriesHistory ==
    \A r \in RunIds : \A k \in 1..Len(run[r].requests) :
        LET s == run[r]
        IN  /\ Len(s.rounds) >= k - 1
            /\ s.requests[k].messages
                  = <<Message("system", SystemPrompt, "", <<>>)>> \o s.messages
                    \o Flatten([j \in 1..(k - 1) |->
                          RoundMessages(s.rounds[j],
                                        Len(s.rounds[j].response.tool_calls.v))])

\* C29's case: a third request was sent after a round of three calls and
\* a round of two.
C29_Witness ==
    \E r \in RunIds :
        /\ Len(run[r].requests) = 3
        /\ Len(run[r].rounds[1].response.tool_calls.v) = 3
        /\ Len(run[r].rounds[2].response.tool_calls.v) = 2
        /\ Len(run[r].requests[3].messages) = Len(run[r].messages) + 8

(***************************************************************************)
(* The signal on the transport calls (Spec).                               *)
(***************************************************************************)
\* C30: every request of a run gives fetch the signal the run was given,
\* and a run whose signal is set while a request is in flight ends with
\* the AbortError at its next step: no tool call is dispatched and
\* nothing is appended to the history for that turn.
C30_InFlightCancellable ==
    [][\A r \in RunIds :
          /\ Len(run'[r].attached) = Len(run'[r].requests)
          /\ \A k \in 1..Len(run'[r].attached) : run'[r].attached[k] = run'[r].sig
          /\ (run[r].pc = "inflight" /\ signal[run[r].sig] /\ run'[r] # run[r]) =>
                /\ run'[r].pc = "thrown"
                /\ run'[r].error = AbortError
                /\ run'[r].dispatches = run[r].dispatches
                /\ run'[r].fullMessages = run[r].fullMessages
                /\ run'[r].rounds = run[r].rounds]_vars

\* C30's case: the second request of a run was aborted in flight, after a
\* round of tool calls: the run threw with no reply to that request.
C30_Witness ==
    \E r \in RunIds :
        /\ run[r].pc = "thrown"
        /\ run[r].error = AbortError
        /\ ~run[r].abortedAtCall
        /\ Len(run[r].requests) = 2
        /\ run[r].iteration = 2
        /\ Len(run[r].rounds) = 1
        /\ RoundComplete(run[r].rounds[1])

(***************************************************************************)
(* Transport failure (Spec).                                               *)
(***************************************************************************)
\* The callbacks of a list that report the end of a run.
EndCallbacks(cbs) == SelectSeq(cbs, LAMBDA c : c.cb \in {"onDone", "onError"})

\* C31: a transport failure ends the run: the step in which the request
\* fails leaves run thrown with that error, sends no request, dispatches
\* no tool, appends nothing to the history and calls neither onDone nor
\* onError; and a run thrown with it never changes again.
C31_TransportFailureFatal ==
    [][\A r \in RunIds :
          (run'[r].pc = "thrown" /\ run'[r].error.origin = "transport") =>
              IF run[r].pc = "thrown" THEN run'[r] = run[r]
              ELSE /\ run[r].pc = "inflight"
                   /\ run'[r].requests = run[r].requests
                   /\ run'[r].dispatches = run[r].dispatches
                   /\ run'[r].fullMessages = run[r].fullMessages
                   /\ run'[r].rounds = run[r].rounds
                   /\ EndCallbacks(run'[r].callbacks) = <<>>]_vars

\* C31's case: the second request of a run failed after a round of tool
\* calls and a first delta.
C31_Witness ==
    \E r \in RunIds :
        /\ run[r].pc = "thrown"
        /\ run[r].error.origin = "transport"
        /\ Len(run[r].requests) = 2
        /\ Len(run[r].dispatches) >= 1
        /\ Last(run[r].callbacks).cb = "onToken"

(***************************************************************************)
(* Termination (SpecLive).                                                 *)
(***************************************************************************)
Terminated(r) == run[r].pc \in {"returned", "thrown", "unused"}

\* C32: when every transport call and every tool execution completes,
\* every invocation of run ends, returning or throwing, whatever the
\* ceiling and also when every turn answers with tool calls.
C32_RunTerminates == <>(\A r \in RunIds : Terminated(r))

\* C32's case: every turn up to the largest ceiling answered with tool
\* calls, more calls than turns, and the run has ended.
C32_Witness ==
    \E r \in RunIds :
        /\ run[r].pc = "returned"
        /\ run[r].maxIterations = MaxIter
        /\ Len(run[r].rounds) = MaxIter
        /\ \A k \in 1..MaxIter : Len(run[r].rounds[k].response.tool_calls.v) >= 2

(***************************************************************************)
(* The documents split (SpecChunks).                                       *)
(***************************************************************************)
\* Longest document.
MaxContent == 5

\* Largest configured chunk size.
MaxChunkSize == 3

Documents == UNION {[1..n -> {"a", "SP", "NL"}] : n \in 0..MaxContent}

ChunksInit ==
    \E content \in Documents, size \in 1..MaxChunkSize :
        split = Split(content, size, FALSE, <<>>)

\* translateDocument: const chunks = this.splitIntoChunks(content).
SplitDocument ==
    /\ ~split.returned
    /\ split' = [split EXCEPT !.returned = TRUE,
                              !.chunks = splitIntoChunks(split.content, split.maxChunkSize)]
    /\ UNCHANGED streamVars
    /\ UNCHANGED agentVars
    /\ UNCHANGED registryVars
    /\ UNCHANGED storeVars
    /\ UNCHANGED viewVars

InitChunks == ChunksInit /\ AgentIdle /\ StreamIdle /\ RegistryIdle /\ StoreIdle /\ ViewIdle

SpecChunks == InitChunks /\ [][SplitDocument]_vars

\* C33: every chunk splitIntoChunks returns is at most maxChunkSize
\* characters long.
C33_ChunksWithinSize ==
    split.returned =>
        \A i \in 1..Len(split.chunks) : Len(split.chunks[i]) <= split.maxChunkSize

\* C34: text left in the line buffer when the byte stream ends (a last
\* line without its newline) is never decoded: the result and the deltas
\* emitted are those of the stream without its last line, so the final
\* event counts only if a newline follows it.
C34_UnterminatedLineDropped ==
    (spc = "done" /\ ~sent.terminated /\ sent.frames # <<>>) =>
        LET without == Feed(DecoderInit, StreamBytes(Front(sent.frames), TRUE))
            last == Last(sent.frames)
        IN  /\ StreamResult(dec) = StreamResult(without)
            /\ dec.deltas = without.deltas
            /\ dec.buffer = SplitNL(last.line)[Len(SplitNL(last.line))]

\* C34's case: the last line, a well-formed event with a tool-call
\* fragment and nothing after it, was read to the end and the result has
\* no tool call.
C34_Witness ==
    /\ spc = "done"
    /\ ~sent.terminated
    /\ Len(sent.frames) = 2
    /\ sent.frames[1].json.choices # <<>>
    /\ sent.frames[1].json.choices[1].delta.tool_calls = <<>>
    /\ sent.frames[2].json.choices # <<>>
    /\ sent.frames[2].json.choices[1].delta.tool_calls # <<>>
    /\ StreamResult(dec).tool_calls.undef
    /\ dec.buffer # <<>>

(***************************************************************************)
(* The agent loop with a registry that changes while a run is in progress  *)
(* (SpecMutating): the tool being executed registers or unregisters a tool *)
(* or clears the registry.                                                 *)
(***************************************************************************)
\* Largest ceiling of a run whose registry changes.
MaxMutIter == 2

\* What a tool does to the registry while it executes: it registers n0
\* anew with another schema and behaviour, unregisters n0, or clears.
Mutations(reg) ==
    { MapSet(reg, Tool("n0", "e0", "q0", "throws")), MapDelete(reg, "n0"), <<>> }

\* register(tool), unregister(name) or clear(), called by the tool that
\* run is awaiting.
MutateRegistry ==
    /\ \E r \in RunIds : run[r].pc = "executing"
    /\ \E reg \in Mutations(registry) :
          /\ reg # registry
          /\ registry' = reg
    /\ UNCHANGED <<run, signal>>
    /\ UNCHANGED streamVars
    /\ UNCHANGED storeVars
    /\ UNCHANGED registryVars
    /\ UNCHANGED chunkVars
    /\ UNCHANGED viewVars

MutatingNext == AgentNext \/ MutateRegistry

InitMutating ==
    /\ registry \in Registries
    /\ \E m \in 1..MaxMutIter, msgs \in Inputs :
          run = [r \in RunIds |-> IF r = 1 THEN NewRun(m, msgs, 1) ELSE UnusedRun]
    /\ signal = [r \in RunIds |-> FALSE]
    /\ StreamIdle
    /\ RegistryIdle
    /\ StoreIdle
    /\ ChunkIdle
    /\ ViewIdle

SpecMutating == InitMutating /\ [][MutatingNext]_vars

\* C35: the tool schemas are computed once at the start of run and the
\* same list is sent on every iteration: a register, unregister or clear
\* during the run changes neither the run's list nor the tools of any
\* later request, while each dispatch looks the tool up in the registry
\* as it is at that moment.
C35_SchemasFrozenDispatchLive ==
    [][\A r \in RunIds :
          /\ run[r].pc \notin {"ready", "unused"} => run'[r].toolDefs = run[r].toolDefs
          /\ \A k \in 1..Len(run'[r].requests) :
                run'[r].requests[k].tools = ToolsOption(run'[r].toolDefs).v
          /\ Len(run'[r].dispatches) > Len(run[r].dispatches) =>
                run'[r].exec.lookup = RegistryGet(registry, run'[r].exec.name)]_vars

\* C35's case: the tool n0 was registered when the run began and is
\* advertised in a second request made after the registry was cleared,
\* and the call of n0 dispatched after that did not find it.
C35_Witness ==
    /\ Len(run[1].requests) >= 2
    /\ registry = <<>>
    /\ \E i \in 1..Len(run[1].requests[2].tools) :
          run[1].requests[2].tools[i].function.name = "n0"
    /\ run[1].pc = "executing"
    /\ run[1].exec.name = "n0"
    /\ ~run[1].exec.lookup.found

\* C36: the signal is not checked between the last tool dispatch of a
\* round and the loop-bound test: when it becomes set during the
\* execution of the last tool of the last permitted iteration, the step
\* in which that execution settles appends the tool's result and returns
\* the exhaustion result with onError called, and no cancellation error
\* is raised.
C36_LateCancelUnobserved ==
    [][\A r \in RunIds :
          (/\ run[r].pc = "executing"
           /\ signal[r]
           /\ run[r].i = Len(ToolCalls(run[r].response))
           /\ run[r].iteration = run[r].maxIterations
           /\ run'[r] # run[r]) =>
              /\ run'[r].pc = "returned"
              /\ run'[r].outcome = "exhausted"
              /\ run'[r].error = NoError
              /\ Len(run'[r].fullMessages) = Len(run[r].fullMessages) + 1
              /\ Last(run'[r].fullMessages).role = "tool"
              /\ Last(run'[r].fullMessages).tool_call_id
                     = ToolCalls(run[r].response)[run[r].i].id
              /\ run'[r].callbacks
                     = run[r].callbacks
                       \o <<Callback("onToolResult",
                                     <<run[r].exec.name>>
                                     \o Last(run'[r].fullMessages).content),
                            Callback("onError", ExhaustedMessage)>>]_vars

\* C36's case: a run of two iterations whose signal was set while the
\* last tool of the second round executed has returned exhausted.
C36_Witness ==
    /\ run[1].pc = "returned"
    /\ run[1].outcome = "exhausted"
    /\ run[1].maxIterations = 2
    /\ signal[1]
    /\ Last(run[1].fullMessages).role = "tool"
    /\ Last(run[1].callbacks).cb = "onError"

\* C37: a run that returns has called exactly one of onDone (done) and
\* onError (exhausted), exactly once and after every onToken, onThinking
\* and onToolResult call of the run; a run that ended by cancellation or
\* by a transport failure has called neither, and neither is called
\* while the run is in progress.
C37_OneFinalCallback ==
    \A r \in RunIds :
        LET cbs == run[r].callbacks
        IN  /\ run[r].pc = "returned" =>
                  /\ Len(EndCallbacks(cbs)) = 1
                  /\ Last(cbs).cb = (IF run[r].outcome = "done" THEN "onDone" ELSE "onError")
                  /\ run[r].outcome \in {"done", "exhausted"}
            /\ (run[r].pc = "thrown" /\ run[r].error.origin \in {"cancel", "transport"}) =>
                  EndCallbacks(cbs) = <<>>
            /\ Live(r) => EndCallbacks(cbs) = <<>>

\* C37's case: a run that streamed text and executed a tool has returned
\* done, with onDone the last of its callbacks.
C37_Witness ==
    /\ run[1].pc = "returned"
    /\ run[1].outcome = "done"
    /\ \E i \in 1..Len(run[1].callbacks) : run[1].callbacks[i].cb = "onToken"
    /\ \E i \in 1..Len(run[1].callbacks) : run[1].callbacks[i].cb = "onToolResult"
    /\ Last(run[1].callbacks).cb = "onDone"

\* C38: run never changes the message list its caller supplied: in
\* every step, and so on every outcome (done, exhausted, cancelled,
\* transport failure), the caller's list has the length and the elements
\* it had before, while the history, a copy, is what grows.
C38_CallerListUntouched ==
    [][\A r \in RunIds :
          /\ Len(run'[r].messages) = Len(run[r].messages)
          /\ \A i \in 1..Len(run[r].messages) : run'[r].messages[i] = run[r].messages[i]
          /\ Len(run'[r].fullMessages) > Len(run[r].fullMessages) =>
                run'[r].messages # run'[r].fullMessages]_vars

\* C38's case: a run given one message was cancelled after a round of
\* tool calls had been appended to its history.
C38_Witness ==
    /\ run[1].pc = "thrown"
    /\ run[1].error.origin = "cancel"
    /\ Len(run[1].messages) = 1
    /\ Len(run[1].rounds) >= 1
    /\ Len(run[1].fullMessages) >= 4

(***************************************************************************)
(* The requests of a ChatView (SpecView).                                  *)
(***************************************************************************)
\* Largest number of sendCurrentMessage calls that pass the guard.
MaxSends == 3

\* finally { this.isLoading = false; ...; this.abortController = null }
Finally(v, k) ==
    [v EXCEPT !.isLoading = FALSE, !.abortController = 0, !.sends[k].pc = "finished"]

\* A click on the send button, Enter in the input, or a click on a quick
\* action (which fills the input when isLoading is false): with text in
\* the input and the API configured, sendCurrentMessage passes
\* "if (!text || this.isLoading) return", pushes the user message and
\* awaits plugin.updateChatSession.
SendCurrentMessage ==
    /\ Len(view.sends) < MaxSends
    /\ ~view.isLoading
    /\ view' = [view EXCEPT !.sends = Append(@, SendCall("saving", FALSE))]
    /\ UNCHANGED streamVars
    /\ UNCHANGED agentVars
    /\ UNCHANGED registryVars
    /\ UNCHANGED storeVars
    /\ UNCHANGED chunkVars

\* updateChatSession settles: getAgentResponse runs to its await of
\* agent.run (or llmClient.stream): isLoading = true, a new
\* AbortController is stored and its signal goes with the request.
GetAgentResponse(k) ==
    /\ k \in DOMAIN view.sends
    /\ view.sends[k].pc = "saving"
    /\ view' = [view EXCEPT !.isLoading = TRUE, !.abortController = k,
                            !.sends[k].pc = "inflight"]
    /\ UNCHANGED streamVars
    /\ UNCHANGED agentVars
    /\ UNCHANGED registryVars
    /\ UNCHANGED storeVars
    /\ UNCHANGED chunkVars

\* The request resolves: the assistant message is pushed and
\* getAgentResponse awaits updateChatSession and the rendering.
ResponseArrived(k) ==
    /\ k \in DOMAIN view.sends
    /\ view.sends[k].pc = "inflight"
    /\ ~view.sends[k].aborted
    /\ view' = [view EXCEPT !.sends[k].pc = "finishing"]
    /\ UNCHANGED streamVars
    /\ UNCHANGED agentVars
    /\ UNCHANGED registryVars
    /\ UNCHANGED storeVars
    /\ UNCHANGED chunkVars

\* The request rejects (the AbortError of an aborted signal, or a fault of
\* the transport): catch, then finally.
RequestRejected(k) ==
    /\ k \in DOMAIN view.sends
    /\ view.sends[k].pc = "inflight"
    /\ view' = Finally(view, k)
    /\ UNCHANGED streamVars
    /\ UNCHANGED agentVars
    /\ UNCHANGED registryVars
    /\ UNCHANGED storeVars
    /\ UNCHANGED chunkVars

\* The awaits after the response settle: finally.
ResponseRendered(k) ==
    /\ k \in DOMAIN view.sends
    /\ view.sends[k].pc = "finishing"
    /\ view' = Finally(view, k)
    /\ UNCHANGED streamVars
    /\ UNCHANGED agentVars
    /\ UNCHANGED registryVars
    /\ UNCHANGED storeVars
    /\ UNCHANGED chunkVars

\* onClose: this.abortController?.abort()
OnClose ==
    /\ view.abortController # 0
    /\ ~view.sends[view.abortController].aborted
    /\ view' = [view EXCEPT !.sends[view.abortController].aborted = TRUE]
    /\ UNCHANGED streamVars
    /\ UNCHANGED agentVars
    /\ UNCHANGED registryVars
    /\ UNCHANGED storeVars
    /\ UNCHANGED chunkVars

ViewNext ==
    \/ SendCurrentMessage
    \/ OnClose
    \/ \E k \in 1..MaxSends :
          \/ GetAgentResponse(k)
          \/ ResponseArrived(k)
          \/ RequestRejected(k)
          \/ ResponseRendered(k)

InitView == ViewIdle /\ AgentIdle /\ StreamIdle /\ RegistryIdle /\ StoreIdle /\ ChunkIdle

SpecView == InitView /\ [][ViewNext]_vars

\* The calls of sendCurrentMessage whose request has been started and has
\* not finished.
Unfinished == {k \in DOMAIN view.sends : view.sends[k].pc \in {"inflight", "finishing"}}

\* C39: a ChatView has at most one request that was started and has not
\* finished, and while a request is in flight abortController is the
\* controller of that request.
C39_OneRequestInFlight ==
    /\ Cardinality(Unfinished) <= 1
    /\ \A k \in DOMAIN view.sends :
          view.sends[k].pc = "inflight" => view.abortController = k

====
